---- MODULE Spec2Model ----
(***************************************************************************)
(* javSpider: the crawl of one task by the javbus and javdb spiders, the   *)
(* candidate-link scorer (get_best_magnet), the MongoDB gateway, the URL   *)
(* resolver and the task runner.                                           *)
(*                                                                         *)
(* Six specifications share the variables below:                           *)
(*   Spec        one task run driven by the Scrapy engine: list pages,     *)
(*               detail pages, the javbus ajax fetch, the item pipeline;   *)
(*   SpecUnit    the spiders' handlers called one by one on drawn inputs   *)
(*               (_is_duplicate_item, parse_magnet_ajax, javdb             *)
(*               parse_detail, process_item);                              *)
(*   SpecScorer  get_best_magnet of both spiders applied to drawn          *)
(*               candidate lists;                                          *)
(*   SpecResolver build_final_url, Task construction and validate_tasks    *)
(*               applied to a drawn task entry;                            *)
(*   SpecRunner  TaskRunner.run_spiders on a validated task list, under    *)
(*               the reactor of TaskRunner.main (SpecRunnerFair: the same  *)
(*               with weak fairness of its steps);                         *)
(*   SpecExtract _parse_basic_info and _build_final_item of both spiders   *)
(*               applied to a drawn detail page.                           *)
(*                                                                         *)
(* Sizes and weights are fixed-point numbers in thousandths of a MB.       *)
(* Tag texts are abstract: "zimu" is a text containing the marker          *)
(* U+5B57 U+5E55, "zhongzi" one containing U+4E2D U+5B57 only.             *)
(***************************************************************************)
EXTENDS Integers, Sequences, FiniteSets, TLC

VARIABLES
    task,               \* the Task: source, is_skip, filter.only_chinese
    phase,              \* "load", "crawl" or "failed": how far the task's run got
    store,              \* the task's MongoDB collection: a set of documents
    faults,             \* store operations that raised so far
    duplicate_count,    \* spider.duplicate_count
    stop_current_actor, \* spider.stop_current_actor
    total_count,        \* spider.total_count        (javbus only)
    success_count,      \* spider.success_count      (javbus only)
    fail_count,         \* spider.fail_count         (javbus only)
    chinese_count,      \* spider.chinese_count      (javbus only)
    failed_items,       \* spider.failed_items       (javbus only)
    sched,              \* engine: requests waiting in the scheduler
    inflight,           \* engine: the requests being downloaded
    closing,            \* engine: CloseSpider was raised, the spider closes
    pages,              \* list pages served so far
    gen,                \* the suspended parse_list generator
    out,                \* the item a callback yielded, on its way to the pipeline
    entries,            \* list entries examined so far: judged seen, judged new
    hist,               \* the last handler call observed: its input and verdict
    calls,              \* SpecUnit: handler calls made so far
    u_cands,            \* SpecScorer: the candidate elements of the response
    u_only,             \* SpecScorer: the only_chinese argument
    u_result,           \* SpecScorer: what get_best_magnet returned
    r_base,             \* SpecResolver: the url of the task entry
    r_type,             \* SpecResolver: its url_type
    r_conf,             \* SpecResolver: its filter, as the dict of to_dict()
    r_source,           \* SpecResolver: its source, "" when None or missing
    r_results,          \* SpecResolver: what the build_final_url calls returned
    r_task,             \* SpecResolver: the Task constructed from the entry
    r_valid,            \* SpecResolver: validate_tasks' verdict on that Task
    run_tasks,          \* SpecRunner: the validated task list given to run_spiders
    run_idx,            \* SpecRunner: idx of the for loop
    run_pc,             \* SpecRunner: where run_spiders is suspended
    run_success,        \* SpecRunner: success
    run_failed,         \* SpecRunner: failed
    run_active,         \* SpecRunner: the tasks whose crawl is running
    run_elapsed,        \* SpecRunner: time waited since the last task ended
    run_log,            \* SpecRunner: the tasks started so far, in order
    reactor,            \* SpecRunner: the Twisted reactor of TaskRunner.main
    x_source,           \* SpecExtract: the spider that parses the page
    x_title,            \* SpecExtract: the title the list entry carried
    x_doc,              \* SpecExtract: the detail page
    x_chinese,          \* SpecExtract: has_chinese_sub of the selected magnet
    x_item,             \* SpecExtract: the item built from the page
    x_raised            \* SpecExtract: the callback ended with an exception

vars == << task, phase, store, faults, duplicate_count, stop_current_actor,
           total_count, success_count, fail_count, chinese_count, failed_items,
           sched, inflight, closing, pages, gen, out, entries, hist,
           calls, u_cands, u_only, u_result,
           r_base, r_type, r_conf, r_source, r_results, r_task, r_valid,
           run_tasks, run_idx, run_pc, run_success, run_failed, run_active,
           run_elapsed, run_log, reactor,
           x_source, x_title, x_doc, x_chinese, x_item, x_raised >>

spiderVars == << duplicate_count, stop_current_actor, total_count, success_count,
                 fail_count, chinese_count, failed_items >>
engineVars == << sched, inflight, closing, pages, gen >>
scorerVars == << u_cands, u_only, u_result >>
crawlVars == << task, phase, store, faults, spiderVars, engineVars, out, entries,
               hist, calls >>
resolverVars == << r_base, r_type, r_conf, r_source, r_results, r_task, r_valid >>
runnerVars == << run_tasks, run_idx, run_pc, run_success, run_failed, run_active,
                run_elapsed, run_log, reactor >>
extractVars == << x_source, x_title, x_doc, x_chinese, x_item, x_raised >>
\* what run_spiders leaves alone of the crawl: all but the spider's duplicate
\* counter and stop flag, which belong to the spider of the running task
runnerFrame == << task, phase, store, faults, total_count, success_count,
                 fail_count, chinese_count, failed_items, engineVars, out,
                 entries, hist, calls >>

(***************************************************************************)
(* Bounds of the model.                                                    *)
(***************************************************************************)
MaxCands == 2       \* candidate elements in one scored response
MaxPages == 2       \* list pages of the site
MaxNew == 2         \* list entries judged new in one run
MaxSeen == 3        \* list entries judged duplicates in one run
MaxFaults == 1      \* store operations that raise in one run
MaxCalls == 5       \* handler calls in one SpecUnit run

(***************************************************************************)
(* Candidate scorer: src/jav_scrapy/spiders/utils.py and get_best_magnet.  *)
(***************************************************************************)
\* Texts of the size cell.  A text is what the regex ([\d.]+)\s*(GB|MB) sees:
\* the numeral's integer part, its fraction in thousandths, the number of
\* dots in the numeral and the unit ("" when the regex does not match).
SizeTexts ==
    { [int |-> 0,   frac |-> 0,   dots |-> 0, unit |-> ""],      \* ""
      [int |-> 500, frac |-> 0,   dots |-> 0, unit |-> "MB"],    \* "500MB"
      [int |-> 1,   frac |-> 234, dots |-> 1, unit |-> "GB"],    \* "1.234GB"
      [int |-> 11,  frac |-> 0,   dots |-> 0, unit |-> "gb"],    \* "11gb"
      [int |-> 1,   frac |-> 2,   dots |-> 2, unit |-> "GB"] }   \* "1.2.3GB"

\* Texts are sequences of characters: zi = U+5B57, mu = U+5E55, zhong = U+4E2D.
Zimu == << "zi", "mu" >>
Zhongzi == << "zhong", "zi" >>

\* needle in text (Python's substring test)
Contains(text, needle) ==
    \E k \in 0..(Len(text) - Len(needle)) :
        \A j \in 1..Len(needle) : text[k + j] = needle[j]

\* The tag cell and the markup around it: the tag texts (.btn / .tag), and
\* mark: for javdb the element holds a ".tags .is-warning" node, for javbus
\* the <tr> carries an HTML attribute tags="<zi><mu>".
Taggings ==
    { [tags |-> << >>,           mark |-> FALSE],
      [tags |-> << Zimu >>,      mark |-> TRUE],
      [tags |-> << Zimu >>,      mark |-> FALSE],
      [tags |-> << Zhongzi >>,   mark |-> FALSE] }

\* href: "" no link in the element, "http" a link without the magnet prefix.
Hrefs == { "", "http", "magnet1", "magnet2" }

Elements == { [href |-> h, size |-> s, tags |-> t.tags, mark |-> t.mark] :
                h \in Hrefs, s \in SizeTexts, t \in Taggings }

SeqsUpTo(S, n) == UNION { [1..k -> S] : k \in 0..n }

\* str.startswith("magnet:?")
IsMagnet(url) == url \in { "magnet1", "magnet2" }

\* any("<zi><mu>" in t for t in tags)
AnyZimu(tags) == \E i \in 1..Len(tags) : Contains(tags[i], Zimu)

\* any("<zhong><zi>" in t or "<zi><mu>" in t for t in tags)
AnyZhongziOrZimu(tags) ==
    \E i \in 1..Len(tags) : Contains(tags[i], Zhongzi) \/ Contains(tags[i], Zimu)

\* _parse_size: MB in thousandths; raised when float() rejects the numeral
_parse_size(text) ==
    IF text.unit = "" THEN [raised |-> FALSE, mb |-> 0]
    ELSE IF text.dots > 1 THEN [raised |-> TRUE, mb |-> 0]
    ELSE LET size == text.int * 1000 + text.frac
         IN  [raised |-> FALSE,
              mb |-> IF text.unit \in { "GB", "gb" } THEN size * 1024 ELSE size]

\* round(x, 2) on thousandths
Round2(w) == ((w + 5) \div 10) * 10

PriorityBoost == 10000

\* _calculate_magnet_weight (javdb)
_calculate_magnet_weight_javdb(magnet_data) ==
    magnet_data.size + (IF AnyZimu(magnet_data.tags) THEN PriorityBoost * 1000 ELSE 0)

\* _calculate_magnet_weight_javbus
_calculate_magnet_weight_javbus(magnet_data) ==
    magnet_data.size + (IF AnyZimu(magnet_data.tags) THEN PriorityBoost * 1000 ELSE 0)

\* the test of _prefilter_magnets_javdb: m.css(".tags .is-warning")
JavdbPassesFilter(m) == m.mark

\* _prefilter_magnets (javdb): elements with a .tags .is-warning node
_prefilter_magnets_javdb(magnets, only_chinese) ==
    IF ~only_chinese THEN magnets
    ELSE LET chinese_magnets == SelectSeq(magnets, JavdbPassesFilter)
         IN  IF chinese_magnets # << >> THEN chinese_magnets ELSE magnets

\* m.get("tags", []) on a bs4 <tr>: the value of its HTML attribute "tags",
\* a string; the comprehension walks it one character at a time
TrTagsAttr(m) == IF m.mark THEN << << "zi" >>, << "mu" >> >> ELSE << >>

\* the test of _prefilter_magnets_javbus on m.get("tags", [])
JavbusPassesFilter(m) == AnyZhongziOrZimu(TrTagsAttr(m))

\* _prefilter_magnets_javbus
_prefilter_magnets_javbus(magnets, only_chinese) ==
    IF ~only_chinese THEN magnets
    ELSE LET chinese_magnets == SelectSeq(magnets, JavbusPassesFilter)
         IN  IF chinese_magnets # << >> THEN chinese_magnets ELSE magnets

NoMagnet == [valid |-> FALSE]

\* JavdbSpider._parse_magnet_element
JavdbParseMagnetElement(e) ==
    IF e.href = "" \/ ~IsMagnet(e.href) THEN NoMagnet
    ELSE IF _parse_size(e.size).raised THEN NoMagnet
    ELSE [valid |-> TRUE, url |-> e.href, size |-> _parse_size(e.size).mb,
          tags |-> e.tags, has_chinese_sub |-> AnyZimu(e.tags)]

\* JavbusSpider._parse_magnet_element
JavbusParseMagnetElement(e) ==
    IF e.href = "" THEN NoMagnet
    ELSE IF ~IsMagnet(e.href) THEN NoMagnet
    ELSE IF _parse_size(e.size).raised THEN NoMagnet
    ELSE [valid |-> TRUE, url |-> e.href, size |-> _parse_size(e.size).mb,
          tags |-> e.tags, has_chinese_sub |-> AnyZhongziOrZimu(e.tags)]

NoBest == [url |-> "", weight |-> 0, has_chinese_sub |-> FALSE]

\* a replace rule that lets a later candidate of equal weight take over
JavdbReplacesOnTie(weight, max_weight) == weight >= max_weight

\* the replace rule of the javdb loop: weight > max_weight
JavdbReplaces(weight, max_weight) == weight > max_weight

\* the replace rule of the javbus loop: weight >= max_weight
JavbusReplaces(weight, max_weight) == weight >= max_weight

\* the for loop of JavdbSpider.get_best_magnet
RECURSIVE JavdbScan(_, _, _)
JavdbScan(ms, i, best) ==
    IF i > Len(ms) THEN best
    ELSE LET magnet_data == JavdbParseMagnetElement(ms[i])
         IN  IF ~magnet_data.valid THEN JavdbScan(ms, i + 1, best)
             ELSE LET weight == _calculate_magnet_weight_javdb(magnet_data)
                  IN  IF JavdbReplaces(weight, best.weight)
                      THEN JavdbScan(ms, i + 1,
                               [url |-> magnet_data.url, weight |-> weight,
                                has_chinese_sub |-> magnet_data.has_chinese_sub])
                      ELSE JavdbScan(ms, i + 1, best)

\* the for loop of JavbusSpider.get_best_magnet
RECURSIVE JavbusScan(_, _, _)
JavbusScan(ms, i, best) ==
    IF i > Len(ms) THEN best
    ELSE LET magnet_data == JavbusParseMagnetElement(ms[i])
         IN  IF ~magnet_data.valid THEN JavbusScan(ms, i + 1, best)
             ELSE LET weight == _calculate_magnet_weight_javbus(magnet_data)
                  IN  IF JavbusReplaces(weight, best.weight)
                      THEN JavbusScan(ms, i + 1,
                               [url |-> magnet_data.url, weight |-> weight,
                                has_chinese_sub |-> magnet_data.has_chinese_sub])
                      ELSE JavbusScan(ms, i + 1, best)

\* JavdbSpider.get_best_magnet
JavdbGetBestMagnet(magnets, only_chinese) ==
    LET best == JavdbScan(_prefilter_magnets_javdb(magnets, only_chinese), 1, NoBest)
    IN  [url |-> best.url, weight |-> Round2(best.weight),
         has_chinese_sub |-> best.has_chinese_sub]

\* JavbusSpider.get_best_magnet
JavbusGetBestMagnet(magnets, only_chinese) ==
    IF magnets = << >> THEN NoBest
    ELSE LET best == JavbusScan(_prefilter_magnets_javbus(magnets, only_chinese), 1, NoBest)
         IN  [url |-> best.url, weight |-> Round2(best.weight),
              has_chinese_sub |-> best.has_chinese_sub]

get_best_magnet(source, magnets, only_chinese) ==
    IF source = "javdb" THEN JavdbGetBestMagnet(magnets, only_chinese)
    ELSE JavbusGetBestMagnet(magnets, only_chinese)

(***************************************************************************)
(* The URL resolver: src/task/utils.py, and Task of src/task/manager.py.   *)
(* A URL string is [pad, scheme, rest, query]: pad says it has whitespace  *)
(* around it, scheme is "", "http://" or "https://", rest is the text up   *)
(* to the "?" and query the "&"-separated key=value pairs after it.        *)
(* Keys and values are texts of unreserved characters.                     *)
(***************************************************************************)
MaxParams == 2      \* key=value pairs in the query of a task's url
MaxResolves == 2    \* build_final_url calls on one task entry

\* "t=" is a pair with a blank value
QueryPairs == { << "sort_type", "1" >>, << "t", "d" >>, << "t", "x" >>,
                << "t", "" >>, << "f", "x" >> }

\* "[::1/x" is a netloc with an unbalanced bracket: urlparse raises ValueError
Rests == { "", "javdb.com/v/ABCDE", "javbus.com/star/abc", "[::1/x" }

Urls == [pad : BOOLEAN, scheme : { "", "http://", "https://" }, rest : Rests,
         query : SeqsUpTo(QueryPairs, MaxParams)]

\* the empty string
EmptyUrl == [pad |-> FALSE, scheme |-> "", rest |-> "", query |-> << >>]

UrlTypes == { "actor", "Code", "company", "" }

\* str.lower()
Lower(text) == IF text = "Code" THEN "code" ELSE text

\* FilterConfig.to_dict(): only_chinese and the extra filters; a missing
\* exclude_multi_person reads as FALSE
FilterConfs == [only_chinese : BOOLEAN, exclude_multi_person : BOOLEAN]

\* determine_source: "other" is any label that is neither javdb nor javbus
\* ("unknown", "", the first label of another domain)
determine_source(url) ==
    IF url = EmptyUrl THEN "other"
    ELSE IF url.rest = "javdb.com/v/ABCDE" THEN "javdb"
    ELSE IF url.rest = "javbus.com/star/abc" THEN "javbus"
    ELSE "other"

\* normalize_url
normalize_url(url) ==
    IF url = EmptyUrl THEN EmptyUrl
    ELSE LET stripped == [url EXCEPT !.pad = FALSE]
         IN  IF stripped.scheme = "" THEN [stripped EXCEPT !.scheme = "https://"]
             ELSE stripped

\* urlparse(base_url) raises ValueError
Unparseable(url) == url.scheme # "" /\ url.rest = "[::1/x"

\* a dict of lists, in insertion order: a sequence of [key, values]
HasKey(d, k) == \E i \in 1..Len(d) : d[i].key = k
ValuesOf(d, k) == d[CHOOSE i \in 1..Len(d) : d[i].key = k].values
SetKey(d, k, vals) ==
    IF HasKey(d, k)
    THEN [i \in 1..Len(d) |-> IF d[i].key = k THEN [key |-> k, values |-> vals] ELSE d[i]]
    ELSE Append(d, [key |-> k, values |-> vals])

InSeq(x, sq) == \E i \in 1..Len(sq) : sq[i] = x

\* parse_qs on the first n pairs: pairs with a blank value are dropped, the
\* values of a repeated key are collected under its first occurrence
RECURSIVE ParseQsUpTo(_, _)
ParseQsUpTo(query, n) ==
    IF n = 0 THEN << >>
    ELSE LET d == ParseQsUpTo(query, n - 1)
             k == query[n][1]
             v == query[n][2]
         IN  IF v = "" THEN d
             ELSE IF HasKey(d, k) THEN SetKey(d, k, Append(ValuesOf(d, k), v))
             ELSE SetKey(d, k, << v >>)

parse_qs(query) == ParseQsUpTo(query, Len(query))

\* urlencode(params, doseq=True): one key=value pair per value, in dict order
RECURSIVE urlencode(_)
urlencode(d) ==
    IF d = << >> THEN << >>
    ELSE [i \in 1..Len(d[1].values) |-> << d[1].key, d[1].values[i] >>]
         \o urlencode(Tail(d))

\* for val in values: if val not in existing_params[key]: append
RECURSIVE AppendMissing(_, _, _)
AppendMissing(have, values, n) ==
    IF n = 0 THEN have
    ELSE LET sofar == AppendMissing(have, values, n - 1)
         IN  IF InSeq(values[n], sofar) THEN sofar ELSE Append(sofar, values[n])

\* the for loop of _merge_url_params over the first n new parameters
RECURSIVE MergeUpTo(_, _, _, _)
MergeUpTo(existing_params, new_params, overwrite, n) ==
    IF n = 0 THEN existing_params
    ELSE LET d == MergeUpTo(existing_params, new_params, overwrite, n - 1)
             key == new_params[n].key
             values == new_params[n].values
         IN  IF overwrite \/ ~HasKey(d, key) THEN SetKey(d, key, values)
             ELSE SetKey(d, key, AppendMissing(ValuesOf(d, key), values, Len(values)))

\* _merge_url_params; the except branch returns base_url
_merge_url_params(base_url, new_params, overwrite) ==
    IF Unparseable(base_url) THEN base_url
    ELSE [base_url EXCEPT !.query =
             urlencode(MergeUpTo(parse_qs(base_url.query), new_params, overwrite,
                                 Len(new_params)))]

\* an actor URL built with overwrite=True
ActorUrlOverwriting(base_url, filter_conf) ==
    LET t == << "d" >> \o (IF filter_conf.exclude_multi_person THEN << "s" >> ELSE << >>)
                       \o (IF filter_conf.only_chinese THEN << "c" >> ELSE << >>)
        params == << [key |-> "sort_type", values |-> << "0" >>],
                     [key |-> "t", values |-> t] >>
    IN  _merge_url_params(base_url, params, TRUE)

\* _build_javdb_actor_url
_build_javdb_actor_url(base_url, filter_conf) ==
    LET t == << "d" >> \o (IF filter_conf.exclude_multi_person THEN << "s" >> ELSE << >>)
                       \o (IF filter_conf.only_chinese THEN << "c" >> ELSE << >>)
        params == << [key |-> "sort_type", values |-> << "0" >>],
                     [key |-> "t", values |-> t] >>
    IN  _merge_url_params(base_url, params, FALSE)

\* a code URL built with overwrite=False
CodeUrlMerging(base_url, filter_conf) ==
    LET f_value == IF filter_conf.only_chinese THEN << "cnsub" >> ELSE << "download" >>
        params == << [key |-> "sort_type", values |-> << "5" >>],
                     [key |-> "f", values |-> f_value] >>
    IN  _merge_url_params(base_url, params, FALSE)

\* _build_javdb_code_url
_build_javdb_code_url(base_url, filter_conf) ==
    LET f_value == IF filter_conf.only_chinese THEN << "cnsub" >> ELSE << "download" >>
        params == << [key |-> "sort_type", values |-> << "5" >>],
                     [key |-> "f", values |-> f_value] >>
    IN  _merge_url_params(base_url, params, TRUE)

\* _build_javdb_other_url
_build_javdb_other_url(base_url, filter_conf) ==
    LET f_value == IF filter_conf.only_chinese THEN << "cnsub" >> ELSE << "download" >>
        params == << [key |-> "f", values |-> f_value] >>
    IN  _merge_url_params(base_url, params, TRUE)

\* a javbus URL that gets the language parameter of the javdb pages
JavbusUrlFiltering(base_url, filter_conf, url_type) ==
    _merge_url_params(base_url,
        << [key |-> "f", values |-> IF filter_conf.only_chinese THEN << "cnsub" >>
                                    ELSE << "download" >>] >>, TRUE)

\* _build_javbus_url
_build_javbus_url(base_url, filter_conf, url_type) == base_url

\* build_final_url; source "" is a missing source
build_final_url(base_url, url_type, filter_conf, source) ==
    LET norm == normalize_url(base_url)
        src == IF source = "" THEN "unknown" ELSE source
        kind == IF url_type = "" THEN "unknown" ELSE Lower(url_type)
    IN  IF src = "javdb"
        THEN IF kind = "actor" THEN _build_javdb_actor_url(norm, filter_conf)
             ELSE IF kind = "code" THEN _build_javdb_code_url(norm, filter_conf)
             ELSE _build_javdb_other_url(norm, filter_conf)
        ELSE IF src = "javbus" THEN _build_javbus_url(norm, filter_conf, kind)
        ELSE norm

\* str.startswith(("http://", "https://"))
StartsWithHttp(url) == ~url.pad /\ url.scheme \in { "http://", "https://" }

NoTask == [source |-> "", final_url |-> EmptyUrl, built |-> FALSE]

\* Task.__post_init__ and _build_final_url: build_final_url catches what its
\* builders raise, so the fallback to self.url is never taken
TaskPostInit(url, url_type, filter, source) ==
    LET the_source == IF source = "" THEN determine_source(url) ELSE source
    IN  [source |-> the_source,
         final_url |-> build_final_url(url, url_type, filter, the_source),
         built |-> TRUE]

\* the tests of TaskRunner.validate_tasks on one task (its name is not empty)
Validates(t) ==
    /\ t.source # ""
    /\ t.source \in { "javdb", "javbus" }
    /\ t.final_url # EmptyUrl
    /\ StartsWithHttp(t.final_url)

\* a call of build_final_url that switches only_chinese off in the dict it
\* was given
BuildFinalUrlConsuming ==
    /\ Len(r_results) < MaxResolves
    /\ r_results' = Append(r_results, build_final_url(r_base, r_type, r_conf, r_source))
    /\ r_conf' = [r_conf EXCEPT !.only_chinese = FALSE]
    /\ UNCHANGED << r_base, r_type, r_source, r_task, r_valid >>
    /\ UNCHANGED << crawlVars, scorerVars, runnerVars, extractVars >>

\* a call of build_final_url on the task entry
BuildFinalUrl ==
    /\ Len(r_results) < MaxResolves
    /\ r_results' = Append(r_results, build_final_url(r_base, r_type, r_conf, r_source))
    /\ UNCHANGED << r_base, r_type, r_conf, r_source, r_task, r_valid >>
    /\ UNCHANGED << crawlVars, scorerVars, runnerVars, extractVars >>

\* Task(...) is constructed from the entry
ConstructTask ==
    /\ ~r_task.built
    /\ r_task' = TaskPostInit(r_base, r_type, r_conf, r_source)
    /\ UNCHANGED << r_base, r_type, r_conf, r_source, r_results, r_valid >>
    /\ UNCHANGED << crawlVars, scorerVars, runnerVars, extractVars >>

\* TaskRunner.validate_tasks reaches the task
validate_tasks ==
    /\ r_task.built
    /\ r_valid = "unchecked"
    /\ r_valid' = IF Validates(r_task) THEN "valid" ELSE "skipped"
    /\ UNCHANGED << r_base, r_type, r_conf, r_source, r_results, r_task >>
    /\ UNCHANGED << crawlVars, scorerVars, runnerVars, extractVars >>

ResolverIdle ==
    /\ r_base = EmptyUrl /\ r_type = "" /\ r_source = ""
    /\ r_conf = [only_chinese |-> FALSE, exclude_multi_person |-> FALSE]
    /\ r_results = << >> /\ r_task = NoTask /\ r_valid = "unchecked"

(***************************************************************************)
(* The task runner: TaskRunner.run_spiders of src/app/main.py.  A task of  *)
(* the validated list is its source; runner.crawl is one opaque crawl      *)
(* that ends normally, by CloseSpider, or with an exception.               *)
(***************************************************************************)
MaxTasks == 3       \* tasks in the validated list

\* getattr(task, "delay", 2)
TaskDelay == 2

\* how a crawl ends: the list is exhausted, CloseSpider stopped it early, or
\* the spider's construction raised (_init_mongodb re-raises)
CrawlOutcomes == { "finished", "stopped", "raised" }

\* self.max_duplicates, set in __init__
max_duplicates(source) == IF source = "javbus" THEN 3 ELSE 5

\* load_spider_class(task.source) returns the class: importing javdb_spider
\* raises ImportError, importing javbus_spider succeeds
SpiderLoads(source) == source = "javbus"

\* a loop whose except branch leaves the for loop instead of continuing
RunTaskBeginBreaking ==
    /\ run_pc = "next"
    /\ run_idx <= Len(run_tasks)
    /\ run_log' = Append(run_log, [idx |-> run_idx, waited |-> run_elapsed])
    /\ IF SpiderLoads(run_tasks[run_idx])
       THEN /\ run_active' = run_active \cup { run_idx }
            /\ run_pc' = "crawl"
            /\ duplicate_count' = 0
            /\ stop_current_actor' = FALSE
            /\ UNCHANGED << run_idx, run_failed, run_elapsed >>
       ELSE /\ run_failed' = run_failed + 1
            /\ run_idx' = Len(run_tasks) + 1
            /\ run_elapsed' = 0
            /\ UNCHANGED << run_active, run_pc, duplicate_count, stop_current_actor >>
    /\ UNCHANGED << run_tasks, run_success, reactor >>
    /\ UNCHANGED << runnerFrame, scorerVars, resolverVars, extractVars >>

\* a loop that starts the crawl and does not wait for its deferred
RunTaskBeginNoWait ==
    /\ run_pc = "next"
    /\ run_idx <= Len(run_tasks)
    /\ run_log' = Append(run_log, [idx |-> run_idx, waited |-> run_elapsed])
    /\ IF SpiderLoads(run_tasks[run_idx])
       THEN /\ run_active' = run_active \cup { run_idx }
            /\ run_idx' = run_idx + 1
            /\ duplicate_count' = 0
            /\ stop_current_actor' = FALSE
            /\ UNCHANGED << run_pc, run_failed, run_elapsed >>
       ELSE /\ run_failed' = run_failed + 1
            /\ run_idx' = run_idx + 1
            /\ run_elapsed' = 0
            /\ UNCHANGED << run_active, run_pc, duplicate_count, stop_current_actor >>
    /\ UNCHANGED << run_tasks, run_success, reactor >>
    /\ UNCHANGED << runnerFrame, scorerVars, resolverVars, extractVars >>

\* one turn of the for loop up to its first yield: _log_task_start,
\* load_spider_class, runner.crawl, which constructs the task's own spider
\* (duplicate_count = 0, stop_current_actor = False); a load failure is
\* caught, counted and the loop continues
RunTaskBegin ==
    /\ run_pc = "next"
    /\ run_idx <= Len(run_tasks)
    /\ run_log' = Append(run_log, [idx |-> run_idx, waited |-> run_elapsed])
    /\ IF SpiderLoads(run_tasks[run_idx])
       THEN /\ run_active' = run_active \cup { run_idx }
            /\ run_pc' = "crawl"
            /\ duplicate_count' = 0
            /\ stop_current_actor' = FALSE
            /\ UNCHANGED << run_idx, run_failed, run_elapsed >>
       ELSE /\ run_failed' = run_failed + 1
            /\ run_idx' = run_idx + 1
            /\ run_elapsed' = 0
            /\ UNCHANGED << run_active, run_pc, duplicate_count, stop_current_actor >>
    /\ UNCHANGED << run_tasks, run_success, reactor >>
    /\ UNCHANGED << runnerFrame, scorerVars, resolverVars, extractVars >>

\* the spider's duplicate counter and stop flag when its crawl ends: a crawl
\* that stopped on the duplicate limit raised CloseSpider with the flag set
\* and the counter at max_duplicates
SpiderEnds(outcome, source) ==
    /\ stop_current_actor' = (outcome = "stopped")
    /\ IF outcome = "stopped"
       THEN duplicate_count' = max_duplicates(source)
       ELSE duplicate_count' \in 0..(max_duplicates(source) - 1)

\* a runner to which CloseSpider propagates as the failure of the crawl
CrawlEndsStopFails ==
    /\ run_pc = "crawl"
    /\ run_active' = run_active \ { run_idx }
    /\ run_elapsed' = 0
    /\ \E outcome \in CrawlOutcomes :
          /\ outcome # "raised" => reactor = "running"
          /\ SpiderEnds(outcome, run_tasks[run_idx])
          /\ IF outcome \in { "raised", "stopped" }
             THEN /\ run_failed' = run_failed + 1
                  /\ run_idx' = run_idx + 1
                  /\ run_pc' = "next"
                  /\ UNCHANGED run_success
             ELSE /\ run_success' = run_success + 1
                  /\ IF run_idx < Len(run_tasks) /\ TaskDelay > 0
                     THEN run_pc' = "delay" /\ run_idx' = run_idx
                     ELSE run_pc' = "next" /\ run_idx' = run_idx + 1
                  /\ UNCHANGED run_failed
    /\ UNCHANGED << run_tasks, run_log, reactor >>
    /\ UNCHANGED << runnerFrame, scorerVars, resolverVars, extractVars >>

\* the crawl's deferred fires: success += 1 and the delay when another task
\* follows, or the exception is caught, failed += 1 and the loop continues;
\* a crawl closed by CloseSpider fires its deferred like a finished one
CrawlEnds ==
    /\ run_pc = "crawl"
    /\ run_active' = run_active \ { run_idx }
    /\ run_elapsed' = 0
    /\ \E outcome \in CrawlOutcomes :
          /\ outcome # "raised" => reactor = "running"
          /\ SpiderEnds(outcome, run_tasks[run_idx])
          /\ IF outcome = "raised"
             THEN /\ run_failed' = run_failed + 1
                  /\ run_idx' = run_idx + 1
                  /\ run_pc' = "next"
                  /\ UNCHANGED run_success
             ELSE /\ run_success' = run_success + 1
                  /\ IF run_idx < Len(run_tasks) /\ TaskDelay > 0
                     THEN run_pc' = "delay" /\ run_idx' = run_idx
                     ELSE run_pc' = "next" /\ run_idx' = run_idx + 1
                  /\ UNCHANGED run_failed
    /\ UNCHANGED << run_tasks, run_log, reactor >>
    /\ UNCHANGED << runnerFrame, scorerVars, resolverVars, extractVars >>

\* a time unit passes while run_spiders waits on deferLater
Tick ==
    /\ run_pc = "delay"
    /\ reactor = "running"
    /\ run_elapsed < TaskDelay
    /\ run_elapsed' = run_elapsed + 1
    /\ UNCHANGED << run_tasks, run_idx, run_pc, run_success, run_failed,
                    run_active, run_log, reactor >>
    /\ UNCHANGED << crawlVars, scorerVars, resolverVars, extractVars >>

\* deferLater fires after delay time units: the loop goes on
DelayEnds ==
    /\ run_pc = "delay"
    /\ reactor = "running"
    /\ run_elapsed = TaskDelay
    /\ run_idx' = run_idx + 1
    /\ run_pc' = "next"
    /\ UNCHANGED << run_tasks, run_success, run_failed, run_active,
                    run_elapsed, run_log, reactor >>
    /\ UNCHANGED << crawlVars, scorerVars, resolverVars, extractVars >>

\* the loop is over: _log_final_summary and reactor.stop(), which stops a
\* running reactor and raises ReactorNotRunning, into the deferred of
\* run_spiders, when reactor.run() was not called yet
FinalSummary ==
    /\ run_pc = "next"
    /\ run_idx > Len(run_tasks)
    /\ run_pc' = "summary"
    /\ reactor' = IF reactor = "running" THEN "stopped" ELSE reactor
    /\ UNCHANGED << run_tasks, run_idx, run_success, run_failed, run_active,
                    run_elapsed, run_log >>
    /\ UNCHANGED << crawlVars, scorerVars, resolverVars, extractVars >>

\* TaskRunner.main: run_spiders(valid_tasks) returned its deferred, at the
\* first deferred it waits on or at its end, and main calls reactor.run()
ReactorRun ==
    /\ reactor = "unstarted"
    /\ run_pc \in { "crawl", "summary" }
    /\ reactor' = "running"
    /\ UNCHANGED << run_tasks, run_idx, run_pc, run_success, run_failed,
                    run_active, run_elapsed, run_log >>
    /\ UNCHANGED << crawlVars, scorerVars, resolverVars, extractVars >>

RunnerIdle ==
    /\ run_tasks = << >> /\ run_idx = 0 /\ run_pc = "idle"
    /\ run_success = 0 /\ run_failed = 0 /\ run_active = { }
    /\ run_elapsed = 0 /\ run_log = << >> /\ reactor = "unstarted"

(***************************************************************************)
(* The metadata extractors: _parse_basic_info and _build_final_item of     *)
(* both spiders, utils._parse_field_value.  A detail page is [present,     *)
(* tags, stars, score]: the labels of its info panel, the texts of its     *)
(* genre links, whether the page names a performer outside the panel, and  *)
(* the numeral of its rating, one the pattern [\d.]+ matches.  The text of *)
(* every other label is fixed.  A rating is in tenths.  Tag texts  *)
(* are abstract: SubtitleTag is the text U+5B57 U+5E55, ChineseTag the     *)
(* text U+4E2D U+6587 U+5B57 U+5E55.                                       *)
(***************************************************************************)
Labels == { "code", "title", "release_date", "duration", "director", "maker",
            "series", "rating", "tags", "actors" }
SubtitleTag == "tag-zimu"
ChineseTag == "tag-zhongwen-zimu"
TagLists == { << >>, << "tag-drama" >>, << SubtitleTag >>, << ChineseTag >> }
Scores == { "4.5", "1.2.3" }
Pages == { d \in [present : SUBSET Labels, tags : TagLists, stars : BOOLEAN,
                  score : Scores] :
             /\ "tags" \notin d.present => d.tags = << >>
             /\ "actors" \in d.present => ~d.stars
             /\ "rating" \notin d.present => d.score = "4.5" }
NoPage == [present |-> { }, tags |-> << >>, stars |-> FALSE, score |-> "4.5"]
NoRecord == [none |-> TRUE]

\* the text a label of the panel yields, its default when the page lacks it
TextOf(doc, label, text) == IF label \in doc.present THEN text ELSE ""

\* JavbusSpider._parse_basic_info with FIELD_MAPPING and _extract_field_value:
\* the page's rating label is not in the mapping and is skipped
JavbusParseBasicInfo(doc) ==
    [code |-> TextOf(doc, "code", "c1"),
     title |-> TextOf(doc, "title", "t"),
     release_date |-> TextOf(doc, "release_date", "2024-01-01"),
     duration |-> IF "duration" \in doc.present THEN 120 ELSE 0,
     director |-> TextOf(doc, "director", "d"),
     maker |-> TextOf(doc, "maker", "m"),
     series |-> TextOf(doc, "series", "s"),
     tags |-> doc.tags,
     actors |-> IF "actors" \in doc.present \/ doc.stars THEN << "a" >> ELSE << >>]

\* float() of a numeral: a ValueError for one with two points
FloatRaises(numeral) == numeral = "1.2.3"

\* utils._parse_field_value, whether the call raises: only the rating's
\* float(match.group(1)) can
_parse_field_value_raises(field_name, doc) ==
    field_name = "rating" /\ field_name \in doc.present /\ FloatRaises(doc.score)

\* utils._parse_field_value when it returns, the label given by its
\* canonical key
_parse_field_value(field_name, doc) ==
    CASE field_name = "release_date" -> TextOf(doc, field_name, "2024-01-01")
      [] field_name = "duration" -> IF field_name \in doc.present THEN 120 ELSE 0
      [] field_name \in { "director", "maker", "series" } -> TextOf(doc, field_name, "v")
      [] field_name = "rating" -> IF field_name \in doc.present THEN 45 ELSE 0
      [] field_name = "tags" -> doc.tags
      [] field_name = "actors" -> IF field_name \in doc.present THEN << "a" >> ELSE << >>
      [] OTHER -> ""

\* JavdbSpider._parse_basic_info calls _parse_field_value without a try
JavdbParseBasicInfoRaises(doc) ==
    \E field_name \in Labels \ { "code", "title" } :
        _parse_field_value_raises(field_name, doc)

\* JavdbSpider._parse_basic_info: the defaults, then one value per panel block
JavdbParseBasicInfo(doc) ==
    [release_date |-> _parse_field_value("release_date", doc),
     duration |-> _parse_field_value("duration", doc),
     director |-> _parse_field_value("director", doc),
     maker |-> _parse_field_value("maker", doc),
     series |-> _parse_field_value("series", doc),
     rating |-> _parse_field_value("rating", doc),
     tags |-> _parse_field_value("tags", doc),
     actors |-> _parse_field_value("actors", doc)]

\* tags of the item: the synthetic tag is appended when the selected magnet
\* has Chinese subtitles and no tag is literally SubtitleTag
ItemTags(tags, has_chinese_sub) ==
    IF has_chinese_sub /\ ~InSeq(SubtitleTag, tags) THEN Append(tags, ChineseTag)
    ELSE tags

\* JavbusSpider._build_final_item
JavbusBuildFinalItem(title, code, has_chinese_sub, detail_data) ==
    [name |-> "n", title |-> title, code |-> code,
     magnet |-> "magnet:?A", size |-> 1024,
     release_date |-> detail_data.release_date,
     director |-> detail_data.director,
     maker |-> detail_data.maker,
     series |-> detail_data.series,
     tags |-> ItemTags(detail_data.tags, has_chinese_sub),
     actors |-> detail_data.actors]

\* JavdbSpider._build_final_item
JavdbBuildFinalItem(title, code, has_chinese_sub, detail_data) ==
    [name |-> "n", title |-> title, code |-> code,
     magnet |-> "magnet:?A", size |-> 1024,
     release_date |-> detail_data.release_date,
     director |-> detail_data.director,
     maker |-> detail_data.maker,
     series |-> detail_data.series,
     rating |-> detail_data.rating,
     tags |-> ItemTags(detail_data.tags, has_chinese_sub),
     actors |-> detail_data.actors]

\* parse_magnet_ajax (javbus) or parse_detail (javdb) from the parsed panel
\* to the yielded item, for a page whose best magnet is not empty; an
\* exception of _parse_basic_info leaves parse_detail
ExtractDetail ==
    /\ x_item = NoRecord /\ ~x_raised
    /\ IF x_source = "javdb" /\ JavdbParseBasicInfoRaises(x_doc)
       THEN /\ x_raised' = TRUE
            /\ x_item' = x_item
       ELSE /\ x_raised' = FALSE
            /\ x_item' = IF x_source = "javbus"
                         THEN JavbusBuildFinalItem(x_title, "c1", x_chinese,
                                                   JavbusParseBasicInfo(x_doc))
                         ELSE JavdbBuildFinalItem(x_title, "c1", x_chinese,
                                                  JavdbParseBasicInfo(x_doc))
    /\ UNCHANGED << x_source, x_title, x_doc, x_chinese >>
    /\ UNCHANGED << crawlVars, scorerVars, resolverVars, runnerVars >>

ExtractIdle ==
    /\ x_source = "" /\ x_title = "" /\ x_doc = NoPage
    /\ x_chinese = FALSE /\ x_item = NoRecord /\ x_raised = FALSE

(***************************************************************************)
(* The store: src/db/mongo.py.  A document is [id, code, magnet,           *)
(* updated_at]; magnet Null is a missing or null field.  Time has two      *)
(* values: Earlier, before this run, and Now, any datetime.now() of it.    *)
(***************************************************************************)
Codes == { "c1", "c2" }
Null == "null"
NoId == 0
Earlier == "earlier"
Now == "now"

Doc(id, code, magnet, at) == [id |-> id, code |-> code, magnet |-> magnet, updated_at |-> at]

\* _id values: OldId of a document an earlier run left, FreshId of one that
\* insert_one creates in this run
OldId(code) == IF code = "c1" THEN 1 ELSE 2
Ids(coll) == { OldId(c) : c \in Codes } \cup { d.id : d \in coll }
FreshId(coll) == (CHOOSE m \in Ids(coll) : \A k \in Ids(coll) : k <= m) + 1

\* Collections an earlier run can have left: at most one document per code
\* (the unique index of insert_if_not_exists), with or without a magnet.
InitStores ==
    { { Doc(OldId(c), c, m[c], Earlier) : c \in { x \in Codes : m[x] # "absent" } } :
        m \in [Codes -> { "absent", Null, "old" }] }

\* a lookup by code alone, without the "magnet": {"$ne": None} condition
find_one_by_code(coll, code, raised) ==
    IF raised THEN NoId
    ELSE LET found == { d \in coll : d.code = code }
         IN  IF found = { } THEN NoId ELSE (CHOOSE d \in found : TRUE).id

\* a lookup whose failure is answered from the documents of the code
find_one_failing_open(coll, code, raised) ==
    LET found == IF raised THEN { d \in coll : d.code = code }
                 ELSE { d \in coll : d.code = code /\ d.magnet # Null }
    IN  IF found = { } THEN NoId ELSE (CHOOSE d \in found : TRUE).id

\* MongoDBManager.find_one with the query of _is_duplicate_item,
\* {"code": code, "magnet": {"$ne": None}}: the _id found, NoId for False
find_one(coll, code, raised) ==
    IF raised THEN NoId
    ELSE LET found == { d \in coll : d.code = code /\ d.magnet # Null }
         IN  IF found = { } THEN NoId ELSE (CHOOSE d \in found : TRUE).id

\* an update that replaces the document instead of $set-ting one field
update_one_replacing(coll, id, at, raised) ==
    IF raised THEN coll
    ELSE { IF d.id = id THEN Doc(d.id, d.code, Null, at) ELSE d : d \in coll }

\* MongoDBManager.update_one(collection, {"_id": id}) with update None:
\* $set updated_at = now
update_one(coll, id, at, raised) ==
    IF raised THEN coll
    ELSE { IF d.id = id THEN [d EXCEPT !.updated_at = at] ELSE d : d \in coll }

\* MongoDBManager.insert_if_not_exists, the value returned: the _id found,
\* the inserted _id, NoId for None
insert_if_not_exists_id(coll, item, raised) ==
    IF raised THEN NoId
    ELSE LET existing == { d \in coll : d.code = item.code }
         IN  IF existing # { } THEN (CHOOSE d \in existing : TRUE).id
             ELSE FreshId(coll)

\* an upsert: the stored document takes the magnet of the new one
insert_or_replace(coll, item, at, raised) ==
    IF raised THEN coll
    ELSE IF \E d \in coll : d.code = item.code
         THEN { IF d.code = item.code THEN Doc(d.id, d.code, item.magnet, at) ELSE d :
                  d \in coll }
    ELSE coll \cup { Doc(FreshId(coll), item.code, item.magnet, at) }

\* an insert that skips the lookup of the unique field
insert_always(coll, item, at, raised) ==
    IF raised THEN coll
    ELSE coll \cup { Doc(FreshId(coll), item.code, item.magnet, at) }

\* MongoDBManager.insert_if_not_exists(collection, document, unique_field="code")
insert_if_not_exists(coll, item, at, raised) ==
    IF raised THEN coll
    ELSE IF \E d \in coll : d.code = item.code THEN coll
    ELSE coll \cup { Doc(FreshId(coll), item.code, item.magnet, at) }

\* how many of the flags are set
Raised(flags) == Cardinality({ i \in 1..Len(flags) : flags[i] })

(***************************************************************************)
(* The spiders: javbus_spider.py and javdb_spider.py.                      *)
(***************************************************************************)
Sources == { "javbus", "javdb" }
Tasks == [source : Sources, is_skip : BOOLEAN, only_chinese : BOOLEAN]

\* a threshold test that ignores is_skip
ReachedLimitAlways(is_skip, count, limit) == count >= limit

\* a threshold test that lets the count pass the limit before it stops
ReachedLimitLate(is_skip, count, limit) == is_skip /\ count > limit

\* the threshold test of _is_duplicate_item
ReachedLimit(is_skip, count, limit) == is_skip /\ count >= limit

\* hist: the handler called last (op) and its entry (code); of the last
\* duplicate check, whether find_one raised (failed), the verdict (hit) and
\* how many checks in a row up to it had the verdict hit (run); of the last
\* list page parsed to its end or failed, whether a list page follows (next)
NoHist == [op |-> "none", code |-> "", failed |-> FALSE, hit |-> FALSE, run |-> 0,
           next |-> FALSE]
NoItem == [code |-> "", magnet |-> "", size |-> 0, chinese |-> FALSE]

\* _is_duplicate_item(code): fr, ur say whether find_one, update_one raise
\* inside the store gateway (which catches and returns False)
Existing(code, fr) == find_one(store, code, fr)
IsHit(code, fr) == Existing(code, fr) # NoId
Closes(code, fr) ==
    /\ IsHit(code, fr)
    /\ ReachedLimit(task.is_skip, duplicate_count + 1, max_duplicates(task.source))

_is_duplicate_item(code, fr, ur) ==
    /\ faults + Raised(<< fr, ur >>) <= MaxFaults
    /\ ~IsHit(code, fr) => ~ur
    /\ faults' = faults + Raised(<< fr, ur >>)
    /\ IF IsHit(code, fr)
       THEN /\ store' = update_one(store, Existing(code, fr), Now, ur)
            /\ duplicate_count' = duplicate_count + 1
            /\ stop_current_actor' = (stop_current_actor \/ Closes(code, fr))
       ELSE /\ duplicate_count' = 0
            /\ UNCHANGED << store, stop_current_actor >>
    /\ hist' = [op |-> "check", code |-> code, failed |-> fr, hit |-> IsHit(code, fr),
                run |-> IF IsHit(code, fr) THEN hist.run + 1 ELSE 0,
                next |-> FALSE]

\* the responses of the javbus ajax endpoint and of a javdb detail page
SubSmall == [href |-> "magnet1", size |-> [int |-> 500, frac |-> 0, dots |-> 0, unit |-> "MB"],
             tags |-> << Zimu >>, mark |-> TRUE]
PlainBig == [href |-> "magnet2", size |-> [int |-> 11, frac |-> 0, dots |-> 0, unit |-> "gb"],
             tags |-> << >>, mark |-> FALSE]
NotMagnet == [href |-> "http", size |-> [int |-> 500, frac |-> 0, dots |-> 0, unit |-> "MB"],
              tags |-> << >>, mark |-> FALSE]
MagnetPages == { << >>, << NotMagnet >>, << SubSmall >>, << PlainBig >>,
                 << SubSmall, PlainBig >> }

\* _build_final_item
_build_final_item(code, best) ==
    [code |-> code, magnet |-> best.url, size |-> best.weight, chinese |-> best.has_chinese_sub]

FailedItem(code, reason, with_url) == [code |-> code, reason |-> reason, url |-> with_url]

\* JavbusSpider.parse_magnet_ajax
JavbusParseMagnetAjax(code, magnets) ==
    LET best == JavbusGetBestMagnet(magnets, task.only_chinese)
    IN  IF best.url = ""
        THEN /\ fail_count' = fail_count + 1
             /\ failed_items' = Append(failed_items, FailedItem(code, "no_magnet", FALSE))
             /\ UNCHANGED << success_count, chinese_count, out >>
        ELSE /\ success_count' = success_count + 1
             /\ chinese_count' = chinese_count + (IF best.has_chinese_sub THEN 1 ELSE 0)
             /\ out' = _build_final_item(code, best)
             /\ UNCHANGED << fail_count, failed_items >>

\* a parse_detail that yields the item without testing best_magnet
JavdbParseDetailNoTest(code, magnets) ==
    /\ out' = _build_final_item(code, JavdbGetBestMagnet(magnets, task.only_chinese))
    /\ UNCHANGED << fail_count, failed_items, success_count, chinese_count >>

\* JavdbSpider.parse_detail: the spider keeps no counters
JavdbParseDetail(code, magnets) ==
    LET best == JavdbGetBestMagnet(magnets, task.only_chinese)
    IN  /\ out' = IF best.url = "" THEN out ELSE _build_final_item(code, best)
        /\ UNCHANGED << fail_count, failed_items, success_count, chinese_count >>

\* a process_item that keeps the item for another attempt when the insert raises
process_item_retrying(raised) ==
    /\ out # NoItem
    /\ faults + Raised(<< raised >>) <= MaxFaults
    /\ faults' = faults + Raised(<< raised >>)
    /\ store' = IF out.code = "" THEN store
                ELSE insert_if_not_exists(store, out, Now, raised)
    /\ out' = IF raised THEN out ELSE NoItem

\* MongoPipeline.process_item: a raising insert is caught and logged
process_item(raised) ==
    /\ out # NoItem
    /\ faults + Raised(<< raised >>) <= MaxFaults
    /\ faults' = faults + Raised(<< raised >>)
    /\ store' = IF out.code = "" THEN store
                ELSE insert_if_not_exists(store, out, Now, raised)
    /\ out' = NoItem


(***************************************************************************)
(* Spec: one task run under the Scrapy engine.  A request is [kind, code,  *)
(* prio]; the engine downloads up to CONCURRENT_REQUESTS requests at a     *)
(* time, the pending request of highest priority first, and starts no      *)
(* download once CloseSpider was raised.  parse_list is a generator: the   *)
(* engine resumes it one list entry at a time and may run another callback *)
(* in between.                                                             *)
(***************************************************************************)
Req(kind, code, prio) == [kind |-> kind, code |-> code, prio |-> prio]
NoGen == [active |-> FALSE, seen |-> 0]

Remove(q, i) == [j \in 1..(Len(q) - 1) |-> IF j < i THEN q[j] ELSE q[j + 1]]

\* load_spider_class and start(): importing javdb_spider raises ImportError
\* (utils defines neither _calculate_magnet_weight nor _prefilter_magnets),
\* so a javdb task fails before its spider exists; a javbus task requests
\* its first list page
load_spider_class ==
    /\ phase = "load"
    /\ IF task.source = "javdb"
       THEN /\ phase' = "failed"
            /\ sched' = sched
       ELSE /\ phase' = "crawl"
            /\ sched' = << Req("list", "", 0) >>
    /\ UNCHANGED << task, store, faults, spiderVars, inflight, closing, pages,
                    gen, out, entries, hist, calls, scorerVars >>
    /\ UNCHANGED << resolverVars, runnerVars, extractVars >>

\* JavbusSpider.custom_settings: the downloader holds at most this many
\* requests of the task at a time
CONCURRENT_REQUESTS == 1

\* an engine that sends a pending request whatever the downloader holds
DownloadUnthrottled ==
    /\ ~closing
    /\ out = NoItem
    /\ \E i \in 1..Len(sched) :
          /\ \A j \in 1..Len(sched) : sched[j].prio <= sched[i].prio
          /\ inflight' = inflight \cup { sched[i] }
          /\ sched' = Remove(sched, i)
    /\ UNCHANGED << task, phase, store, faults, spiderVars, closing, pages, gen,
                    out, entries, hist, calls, scorerVars >>
    /\ UNCHANGED << resolverVars, runnerVars, extractVars >>

\* the engine sends the next request while the downloader has a free slot
Download ==
    /\ Cardinality(inflight) < CONCURRENT_REQUESTS
    /\ ~closing
    /\ out = NoItem
    /\ \E i \in 1..Len(sched) :
          /\ \A j \in 1..Len(sched) : sched[j].prio <= sched[i].prio
          /\ inflight' = inflight \cup { sched[i] }
          /\ sched' = Remove(sched, i)
    /\ UNCHANGED << task, phase, store, faults, spiderVars, closing, pages, gen,
                    out, entries, hist, calls, scorerVars >>
    /\ UNCHANGED << resolverVars, runnerVars, extractVars >>

\* handle_error: the errback of every request only logs.  has_next says
\* whether the site has a list page after the list page that failed.
handle_error ==
    /\ out = NoItem
    /\ \E req \in inflight, has_next \in BOOLEAN :
          /\ inflight' = inflight \ { req }
          /\ pages' = pages + (IF req.kind = "list" THEN 1 ELSE 0)
          /\ has_next => req.kind = "list" /\ pages' < MaxPages
          /\ hist' = [hist EXCEPT !.op = "error", !.code = req.code, !.next = has_next]
    /\ UNCHANGED << task, phase, store, faults, spiderVars, sched, closing, gen,
                    out, entries, calls, scorerVars >>
    /\ UNCHANGED << resolverVars, runnerVars, extractVars >>

\* a parse_list that starts every page with a fresh duplicate counter
ParseListBeginResets ==
    /\ out = NoItem
    /\ \E empty \in BOOLEAN :
          gen' = IF stop_current_actor \/ empty THEN NoGen
                 ELSE [active |-> TRUE, seen |-> 0]
    /\ \E req \in inflight :
          /\ req.kind = "list"
          /\ inflight' = inflight \ { req }
    /\ pages' = pages + 1
    /\ duplicate_count' = 0
    /\ UNCHANGED << task, phase, store, faults, stop_current_actor, total_count,
                    success_count, fail_count, chinese_count, failed_items, sched,
                    closing, out, entries, hist, calls, scorerVars >>
    /\ UNCHANGED << resolverVars, runnerVars, extractVars >>

\* parse_list up to its for loop: the stop test and the empty page.  The
\* entries of the page are drawn one by one as the loop reaches them.
ParseListBegin ==
    /\ out = NoItem
    /\ \E empty \in BOOLEAN :
          gen' = IF stop_current_actor \/ empty THEN NoGen
                 ELSE [active |-> TRUE, seen |-> 0]
    /\ \E req \in inflight :
          /\ req.kind = "list"
          /\ inflight' = inflight \ { req }
    /\ pages' = pages + 1
    /\ UNCHANGED << task, phase, store, faults, spiderVars, sched, closing, out,
                    entries, hist, calls, scorerVars >>
    /\ UNCHANGED << resolverVars, runnerVars, extractVars >>

\* a duplicate check that sets the flag at the limit and returns True
\* instead of raising CloseSpider
JavbusListItemNoRaise ==
    /\ gen.active
    /\ out = NoItem
    /\ ~stop_current_actor
    /\ \E code \in Codes, fr \in BOOLEAN, ur \in BOOLEAN :
          /\ IF IsHit(code, fr) THEN entries.seen < MaxSeen ELSE entries.new < MaxNew
          /\ _is_duplicate_item(code, fr, ur)
          /\ entries' = [entries EXCEPT ![IF IsHit(code, fr) THEN "seen" ELSE "new"] = @ + 1]
          /\ gen' = [gen EXCEPT !.seen = @ + 1]
          /\ sched' = IF IsHit(code, fr) THEN sched
                      ELSE Append(sched, Req("detail", code, 0))
    /\ UNCHANGED << task, phase, total_count, success_count, fail_count,
                    chinese_count, failed_items, inflight, closing, pages, out,
                    calls, scorerVars >>
    /\ UNCHANGED << resolverVars, runnerVars, extractVars >>

\* JavbusSpider.parse_list, one turn of the for loop: process_list_item,
\* whose duplicate check raises CloseSpider at the limit
JavbusListItem ==
    /\ gen.active
    /\ out = NoItem
    /\ ~stop_current_actor
    /\ \E code \in Codes, fr \in BOOLEAN, ur \in BOOLEAN :
          /\ IF IsHit(code, fr) THEN entries.seen < MaxSeen ELSE entries.new < MaxNew
          /\ _is_duplicate_item(code, fr, ur)
          /\ entries' = [entries EXCEPT ![IF IsHit(code, fr) THEN "seen" ELSE "new"] = @ + 1]
          /\ IF Closes(code, fr)
             THEN /\ gen' = NoGen
                  /\ closing' = TRUE
                  /\ sched' = sched
             ELSE /\ gen' = [gen EXCEPT !.seen = @ + 1]
                  /\ closing' = closing
                  /\ sched' = IF IsHit(code, fr) THEN sched
                              ELSE Append(sched, Req("detail", code, 0))
    /\ UNCHANGED << task, phase, total_count, success_count, fail_count,
                    chinese_count, failed_items, inflight, pages, out, calls,
                    scorerVars >>
    /\ UNCHANGED << resolverVars, runnerVars, extractVars >>

\* parse_list after the loop (a page that is not empty has an entry):
\* follow the next link unless stopped
ParseListNext ==
    /\ gen.active
    /\ gen.seen >= 1 \/ stop_current_actor
    /\ out = NoItem
    /\ \E has_next \in BOOLEAN :
          /\ has_next => pages < MaxPages
          /\ sched' = IF has_next /\ ~stop_current_actor
                      THEN Append(sched, Req("list", "", -10)) ELSE sched
          /\ hist' = [hist EXCEPT !.op = "list_end", !.code = "", !.next = has_next]
    /\ gen' = NoGen
    /\ UNCHANGED << task, phase, store, faults, spiderVars, inflight, closing,
                    pages, out, entries, calls, scorerVars >>
    /\ UNCHANGED << resolverVars, runnerVars, extractVars >>

\* a javbus parse_detail that, like javdb's, yields the item from the
\* detail page and makes no ajax request
JavbusParseDetailYieldsItem ==
    /\ out = NoItem
    /\ total_count' = total_count + 1
    /\ \E req \in inflight, page \in { "ok", "no_vars", "raises" } :
          /\ req.kind = "detail"
          /\ fail_count' = fail_count + (IF page = "ok" THEN 0 ELSE 1)
          /\ failed_items' = IF page = "raises"
                             THEN Append(failed_items, FailedItem(req.code, "error", TRUE))
                             ELSE failed_items
          /\ out' = IF page = "ok"
                    THEN _build_final_item(req.code, JavbusGetBestMagnet(<< SubSmall >>, FALSE))
                    ELSE out
          /\ inflight' = inflight \ { req }
          /\ hist' = [hist EXCEPT !.op = page, !.code = req.code]
    /\ UNCHANGED << task, phase, store, faults, duplicate_count, stop_current_actor,
                    success_count, chinese_count, sched, closing, pages, gen,
                    entries, calls, scorerVars >>
    /\ UNCHANGED << resolverVars, runnerVars, extractVars >>

\* a parse_detail whose missing-variable branch lacks its return: the
\* match's group() then raises, and the except clause counts the entry again
JavbusParseDetailNoReturn ==
    /\ out = NoItem
    /\ total_count' = total_count + 1
    /\ \E req \in inflight, page \in { "ok", "no_vars", "raises" } :
          /\ req.kind = "detail"
          /\ fail_count' = fail_count + (CASE page = "ok" -> 0
                                           [] page = "no_vars" -> 2
                                           [] page = "raises" -> 1)
          /\ failed_items' = IF page = "ok" THEN failed_items
                             ELSE Append(failed_items, FailedItem(req.code, "error", TRUE))
          /\ sched' = IF page = "ok" THEN Append(sched, Req("ajax", req.code, 10))
                      ELSE sched
          /\ inflight' = inflight \ { req }
          /\ hist' = [hist EXCEPT !.op = page, !.code = req.code]
    /\ UNCHANGED << task, phase, store, faults, duplicate_count, stop_current_actor,
                    success_count, chinese_count, closing, pages, gen, out,
                    entries, calls, scorerVars >>
    /\ UNCHANGED << resolverVars, runnerVars, extractVars >>

\* a parse_detail that counts the page inside the try block, after the parse
JavbusParseDetailCountsInTry ==
    /\ out = NoItem
    /\ \E req \in inflight, page \in { "ok", "no_vars", "raises" } :
          /\ total_count' = total_count + (IF page = "raises" THEN 0 ELSE 1)
          /\ req.kind = "detail"
          /\ fail_count' = fail_count + (IF page = "ok" THEN 0 ELSE 1)
          /\ failed_items' = IF page = "raises"
                             THEN Append(failed_items, FailedItem(req.code, "error", TRUE))
                             ELSE failed_items
          /\ sched' = IF page = "ok" THEN Append(sched, Req("ajax", req.code, 10))
                      ELSE sched
          /\ inflight' = inflight \ { req }
          /\ hist' = [hist EXCEPT !.op = page, !.code = req.code]
    /\ UNCHANGED << task, phase, store, faults, duplicate_count, stop_current_actor,
                    success_count, chinese_count, closing, pages, gen, out,
                    entries, calls, scorerVars >>
    /\ UNCHANGED << resolverVars, runnerVars, extractVars >>

\* JavbusSpider.parse_detail on a detail response: page says whether the
\* script variables gid, uc and img are all there ("ok"), one is missing
\* ("no_vars"), or the try block raises ("raises")
JavbusParseDetail ==
    /\ out = NoItem
    /\ total_count' = total_count + 1
    /\ \E req \in inflight, page \in { "ok", "no_vars", "raises" } :
          /\ req.kind = "detail"
          /\ fail_count' = fail_count + (IF page = "ok" THEN 0 ELSE 1)
          /\ failed_items' = IF page = "raises"
                             THEN Append(failed_items, FailedItem(req.code, "error", TRUE))
                             ELSE failed_items
          /\ sched' = IF page = "ok" THEN Append(sched, Req("ajax", req.code, 10))
                      ELSE sched
          /\ inflight' = inflight \ { req }
          /\ hist' = [hist EXCEPT !.op = page, !.code = req.code]
    /\ UNCHANGED << task, phase, store, faults, duplicate_count, stop_current_actor,
                    success_count, chinese_count, closing, pages, gen, out,
                    entries, calls, scorerVars >>
    /\ UNCHANGED << resolverVars, runnerVars, extractVars >>

\* the ajax response reaches parse_magnet_ajax
JavbusAjaxResponse ==
    /\ out = NoItem
    /\ \E req \in inflight, magnets \in MagnetPages :
          /\ req.kind = "ajax"
          /\ JavbusParseMagnetAjax(req.code, magnets)
          /\ inflight' = inflight \ { req }
    /\ UNCHANGED << task, phase, store, faults, duplicate_count, stop_current_actor,
                    total_count, sched, closing, pages, gen, entries, hist, calls,
                    scorerVars >>
    /\ UNCHANGED << resolverVars, runnerVars, extractVars >>

\* the yielded item reaches MongoPipeline.process_item
PipelineItem ==
    /\ \E raised \in BOOLEAN : process_item(raised)
    /\ UNCHANGED << task, phase, spiderVars, engineVars, entries, hist, calls,
                    scorerVars >>
    /\ UNCHANGED << resolverVars, runnerVars, extractVars >>

NoResult == [source |-> "none"]
NoEntries == [seen |-> 0, new |-> 0]

Init ==
    /\ task \in Tasks
    /\ phase = "load"
    /\ store \in InitStores
    /\ faults = 0
    /\ duplicate_count = 0
    /\ stop_current_actor = FALSE
    /\ total_count = 0 /\ success_count = 0 /\ fail_count = 0 /\ chinese_count = 0
    /\ failed_items = << >>
    /\ sched = << >>
    /\ inflight = {}
    /\ closing = FALSE
    /\ pages = 0
    /\ gen = NoGen
    /\ out = NoItem
    /\ entries = NoEntries
    /\ hist = NoHist
    /\ calls = 0
    /\ u_cands = << >> /\ u_only = FALSE /\ u_result = NoResult
    /\ ResolverIdle /\ RunnerIdle /\ ExtractIdle

Next ==
    \/ load_spider_class
    \/ Download
    \/ handle_error
    \/ ParseListBegin
    \/ JavbusListItem
    \/ ParseListNext
    \/ JavbusParseDetail
    \/ JavbusAjaxResponse
    \/ PipelineItem

Spec == Init /\ [][Next]_vars
(***************************************************************************)
(* SpecScorer: get_best_magnet of each spider applied to a drawn response. *)
(* JavdbSpider's imports _calculate_magnet_weight and _prefilter_magnets   *)
(* are read as the functions utils.py defines with the _javdb suffix.      *)
(***************************************************************************)
ScoreJavdb ==
    /\ u_result = NoResult
    /\ u_result' = [source |-> "javdb"] @@ JavdbGetBestMagnet(u_cands, u_only)
    /\ UNCHANGED << task, phase, store, faults, spiderVars, engineVars, out,
                    entries, hist, calls, u_cands, u_only >>
    /\ UNCHANGED << resolverVars, runnerVars, extractVars >>

ScoreJavbus ==
    /\ u_result = NoResult
    /\ u_result' = [source |-> "javbus"] @@ JavbusGetBestMagnet(u_cands, u_only)
    /\ UNCHANGED << task, phase, store, faults, spiderVars, engineVars, out,
                    entries, hist, calls, u_cands, u_only >>
    /\ UNCHANGED << resolverVars, runnerVars, extractVars >>

InitScorer ==
    /\ task = [source |-> "javbus", is_skip |-> FALSE, only_chinese |-> FALSE]
    /\ phase = "crawl"
    /\ store = { }
    /\ faults = 0
    /\ duplicate_count = 0
    /\ stop_current_actor = FALSE
    /\ total_count = 0 /\ success_count = 0 /\ fail_count = 0 /\ chinese_count = 0
    /\ failed_items = << >>
    /\ sched = << >>
    /\ inflight = {}
    /\ closing = FALSE
    /\ pages = 0
    /\ gen = NoGen
    /\ out = NoItem
    /\ entries = NoEntries
    /\ hist = NoHist
    /\ calls = 0
    /\ u_cands \in SeqsUpTo(Elements, MaxCands)
    /\ u_only \in BOOLEAN
    /\ u_result = NoResult
    /\ ResolverIdle /\ RunnerIdle /\ ExtractIdle

NextScorer == ScoreJavdb \/ ScoreJavbus

SpecScorer == InitScorer /\ [][NextScorer]_vars

(***************************************************************************)
(* SpecUnit: the handlers of both spiders called one at a time, each on a  *)
(* drawn input, as the engine calls them; hist and u_cands keep the input  *)
(* of the last call.                                                       *)
(***************************************************************************)
\* _is_duplicate_item of the task's spider; no call follows CloseSpider
UnitIsDuplicateItem ==
    /\ calls < MaxCalls
    /\ ~stop_current_actor
    /\ out = NoItem
    /\ \E code \in Codes, fr \in BOOLEAN, ur \in BOOLEAN :
          _is_duplicate_item(code, fr, ur)
    /\ calls' = calls + 1
    /\ UNCHANGED << task, phase, total_count, success_count, fail_count,
                    chinese_count, failed_items, engineVars, out, entries,
                    scorerVars >>
    /\ UNCHANGED << resolverVars, runnerVars, extractVars >>

\* JavdbSpider.parse_list on a page with an entry: process_list_item(...)
\* returns a generator that is never run, and setting req.priority on it
\* raises AttributeError, which ends the callback
UnitJavdbParseList ==
    /\ calls < MaxCalls
    /\ task.source = "javdb"
    /\ ~stop_current_actor
    /\ out = NoItem
    /\ \E code \in Codes, has_next \in BOOLEAN :
          hist' = [hist EXCEPT !.op = "crash", !.code = code, !.next = has_next]
    /\ calls' = calls + 1
    /\ UNCHANGED << task, phase, store, faults, spiderVars, engineVars, out,
                    entries, scorerVars >>
    /\ UNCHANGED << resolverVars, runnerVars, extractVars >>

\* JavdbSpider.parse_detail on a detail page
UnitJavdbParseDetail ==
    /\ calls < MaxCalls
    /\ task.source = "javdb"
    /\ out = NoItem
    /\ \E code \in Codes, magnets \in MagnetPages :
          /\ JavdbParseDetail(code, magnets)
          /\ u_cands' = magnets
          /\ hist' = [hist EXCEPT !.op = "detail", !.code = code]
    /\ calls' = calls + 1
    /\ UNCHANGED << task, phase, store, faults, duplicate_count, stop_current_actor,
                    total_count, engineVars, entries, u_only, u_result >>
    /\ UNCHANGED << resolverVars, runnerVars, extractVars >>

\* JavbusSpider.parse_magnet_ajax on an ajax response
UnitJavbusParseMagnetAjax ==
    /\ calls < MaxCalls
    /\ task.source = "javbus"
    /\ out = NoItem
    /\ \E code \in Codes, magnets \in MagnetPages :
          /\ JavbusParseMagnetAjax(code, magnets)
          /\ u_cands' = magnets
          /\ hist' = [hist EXCEPT !.op = "ajax", !.code = code]
    /\ calls' = calls + 1
    /\ UNCHANGED << task, phase, store, faults, duplicate_count, stop_current_actor,
                    total_count, engineVars, entries, u_only, u_result >>
    /\ UNCHANGED << resolverVars, runnerVars, extractVars >>

\* MongoPipeline.process_item on the item just yielded
UnitProcessItem ==
    /\ \E raised \in BOOLEAN : process_item(raised)
    /\ hist' = [hist EXCEPT !.op = "saved", !.code = out.code]
    /\ UNCHANGED << task, phase, spiderVars, engineVars, entries, calls, scorerVars >>
    /\ UNCHANGED << resolverVars, runnerVars, extractVars >>

InitUnit ==
    /\ task \in Tasks
    /\ phase = "crawl"
    /\ store \in InitStores
    /\ faults = 0
    /\ duplicate_count = 0
    /\ stop_current_actor = FALSE
    /\ total_count = 0 /\ success_count = 0 /\ fail_count = 0 /\ chinese_count = 0
    /\ failed_items = << >>
    /\ sched = << >>
    /\ inflight = {}
    /\ closing = FALSE
    /\ pages = 0
    /\ gen = NoGen
    /\ out = NoItem
    /\ entries = NoEntries
    /\ hist = NoHist
    /\ calls = 0
    /\ u_cands = << >> /\ u_only = FALSE /\ u_result = NoResult
    /\ ResolverIdle /\ RunnerIdle /\ ExtractIdle

NextUnit ==
    \/ UnitIsDuplicateItem
    \/ UnitJavdbParseList
    \/ UnitJavdbParseDetail
    \/ UnitJavbusParseMagnetAjax
    \/ UnitProcessItem

SpecUnit == InitUnit /\ [][NextUnit]_vars

(***************************************************************************)
(* SpecResolver: a task entry of task.yml is drawn; build_final_url is     *)
(* called on it, the Task is constructed and validated.                    *)
(***************************************************************************)
\* the state of the crawl and of the scorer before any task runs
CrawlIdle ==
    /\ task = [source |-> "javbus", is_skip |-> FALSE, only_chinese |-> FALSE]
    /\ phase = "load"
    /\ store = { }
    /\ faults = 0
    /\ duplicate_count = 0
    /\ stop_current_actor = FALSE
    /\ total_count = 0 /\ success_count = 0 /\ fail_count = 0 /\ chinese_count = 0
    /\ failed_items = << >>
    /\ sched = << >>
    /\ inflight = {}
    /\ closing = FALSE
    /\ pages = 0
    /\ gen = NoGen
    /\ out = NoItem
    /\ entries = NoEntries
    /\ hist = NoHist
    /\ calls = 0
    /\ u_cands = << >> /\ u_only = FALSE /\ u_result = NoResult

InitResolver ==
    /\ CrawlIdle /\ RunnerIdle /\ ExtractIdle
    /\ r_base \in Urls
    /\ r_type \in UrlTypes
    /\ r_conf \in FilterConfs
    /\ r_source \in { "", "javdb", "javbus", "other" }
    /\ r_results = << >>
    /\ r_task = NoTask
    /\ r_valid = "unchecked"

NextResolver ==
    \/ BuildFinalUrl
    \/ ConstructTask
    \/ validate_tasks

SpecResolver == InitResolver /\ [][NextResolver]_vars

(***************************************************************************)
(* SpecRunner: run_spiders on a validated task list.                       *)
(***************************************************************************)
InitRunner ==
    /\ CrawlIdle /\ ResolverIdle /\ ExtractIdle
    /\ run_tasks \in SeqsUpTo(Sources, MaxTasks) \ { << >> }
    /\ run_idx = 1
    /\ run_pc = "next"
    /\ run_success = 0 /\ run_failed = 0
    /\ run_active = { }
    /\ run_elapsed = 0
    /\ run_log = << >>
    /\ reactor = "unstarted"

NextRunner ==
    \/ RunTaskBegin
    \/ CrawlEnds
    \/ Tick
    \/ DelayEnds
    \/ FinalSummary
    \/ ReactorRun

SpecRunner == InitRunner /\ [][NextRunner]_vars

\* every step of the runner is code that runs when it can: the loop's own
\* statements, a crawl that ends, a timer that fires, main's reactor.run()
SpecRunnerFair == SpecRunner /\ WF_vars(NextRunner)

(***************************************************************************)
(* SpecExtract: one detail page of either spider, from the parsed panel to *)
(* the item.                                                               *)
(***************************************************************************)
InitExtract ==
    /\ CrawlIdle /\ ResolverIdle /\ RunnerIdle
    /\ x_source \in Sources
    /\ x_title \in { "", "t" }
    /\ x_doc \in Pages
    /\ x_chinese \in BOOLEAN
    /\ x_item = NoRecord
    /\ x_raised = FALSE

NextExtract == ExtractDetail

SpecExtract == InitExtract /\ [][NextExtract]_vars

(***************************************************************************)
(* Properties of the candidate scorer, checked under SpecScorer.           *)
(***************************************************************************)
\* the candidate an element of the scored response parses to, per spider
ParsedCandidate(source, e) ==
    IF source = "javdb" THEN JavdbParseMagnetElement(e) ELSE JavbusParseMagnetElement(e)

\* the element passes the language filter of the spider's prefilter
PassesFilter(source, e) ==
    IF source = "javdb" THEN JavdbPassesFilter(e) ELSE JavbusPassesFilter(e)

\* the boost the specification gives a candidate: 10000 MB with the
\* preferred-language flag, else 0
SpecBoost(c) == IF c.has_chinese_sub THEN PriorityBoost * 1000 ELSE 0

Scored == u_result # NoResult

\* some valid candidate of the scored response has the preferred-language flag
SomeValidPreferred ==
    \E i \in 1..Len(u_cands) :
        /\ ParsedCandidate(u_result.source, u_cands[i]).valid
        /\ ParsedCandidate(u_result.source, u_cands[i]).has_chinese_sub

SomeValid ==
    \E i \in 1..Len(u_cands) : ParsedCandidate(u_result.source, u_cands[i]).valid

\* C8: the returned bestURL is empty or the URL of a valid magnet-prefixed
\* candidate of the input, the returned weight is that candidate's size plus
\* its boost (10000 with the preferred-language tag, else 0) rounded to two
\* decimals, and the returned flag is that candidate's flag.
C8_ResultIsACandidate ==
    Scored =>
        \/ u_result.url = ""
        \/ \E i \in 1..Len(u_cands) :
              LET c == ParsedCandidate(u_result.source, u_cands[i])
              IN  /\ c.valid
                  /\ c.url = u_result.url
                  /\ u_result.weight = Round2(c.size + SpecBoost(c))
                  /\ u_result.has_chinese_sub = c.has_chinese_sub

\* C9: with only_chinese true and a valid candidate that has the
\* preferred-language flag, the selected candidate has the flag, whatever
\* the sizes.
C9_PreferredLanguageWins ==
    (Scored /\ u_only /\ SomeValidPreferred) =>
        (u_result.url # "" /\ u_result.has_chinese_sub)

\* C10: with only_chinese true, when no candidate passes the language filter
\* the full set is scanned: a response with a valid candidate and no
\* preferred-language candidate yields a non-empty bestURL.
C10_PrefilterIsAdvisory ==
    (/\ Scored /\ u_only
     /\ \A i \in 1..Len(u_cands) : ~PassesFilter(u_result.source, u_cands[i])
     /\ SomeValid /\ ~SomeValidPreferred) =>
        u_result.url # ""
\* the candidates the scan loop of the scored spider walks: the prefilter's output
Scanned ==
    IF u_result.source = "javdb" THEN _prefilter_magnets_javdb(u_cands, u_only)
    ELSE _prefilter_magnets_javbus(u_cands, u_only)

ValidAt(i) == ParsedCandidate(u_result.source, Scanned[i]).valid

\* size in MB plus 10000 for a tag text containing the subtitle marker
WeightAt(i) ==
    LET c == ParsedCandidate(u_result.source, Scanned[i])
    IN  c.size + (IF AnyZimu(c.tags) THEN PriorityBoost * 1000 ELSE 0)

\* candidate i is valid and no valid scanned candidate weighs more
TopAt(i) ==
    /\ i \in 1..Len(Scanned)
    /\ ValidAt(i)
    /\ \A j \in 1..Len(Scanned) : ValidAt(j) => WeightAt(j) <= WeightAt(i)

SomeTop == \E i \in 1..Len(Scanned) : TopAt(i)
FirstTop == CHOOSE i \in 1..Len(Scanned) : TopAt(i) /\ \A j \in 1..Len(Scanned) : TopAt(j) => i <= j
LastTop == CHOOSE i \in 1..Len(Scanned) : TopAt(i) /\ \A j \in 1..Len(Scanned) : TopAt(j) => j <= i

\* two candidates with different links share the maximum weight
Tie == SomeTop /\ Scanned[FirstTop].href # Scanned[LastTop].href

\* C11 as stated: among candidates of equal maximum weight javdb selects the
\* last one in document order and javbus the first one.
C11_TieBreakAsStated ==
    (Scored /\ Tie) =>
        u_result.url = IF u_result.source = "javdb" THEN Scanned[LastTop].href
                       ELSE Scanned[FirstTop].href

\* C11 (amended): among candidates of equal maximum weight javdb, whenever it
\* selects one, selects the first in document order (strict greater-than
\* rule) and javbus selects the last (greater-or-equal rule).
C11_TieBreakPerSource ==
    (Scored /\ SomeTop) =>
        IF u_result.source = "javdb"
        THEN u_result.url # "" => u_result.url = Scanned[FirstTop].href
        ELSE u_result.url = Scanned[LastTop].href

\* javdb scored a response with two different links of equal maximum weight
\* and returned one of them
C11_Witness ==
    Scored /\ Tie /\ u_result.source = "javdb" /\ u_result.url # ""

\* C12: for both spiders bestURL is empty if and only if the scanned
\* candidates hold no valid magnet-prefixed candidate, also when every valid
\* candidate has weight 0.
C12_EmptyIffNoValid ==
    Scored => ((u_result.url = "") <=> ~SomeTop)
(***************************************************************************)
(* Properties of the handlers, checked under SpecUnit.                     *)
(***************************************************************************)
\* the last call was a parse handler (javdb parse_detail, javbus
\* parse_magnet_ajax) and u_cands is the response it was given
ParsedAResponse == hist.op \in { "detail", "ajax" }

\* what the scorer of the task's spider returns for the last response
BestOfResponse == get_best_magnet(task.source, u_cands, task.only_chinese)

\* the last response holds no valid magnet-prefixed link
NoValidLink ==
    \A i \in 1..Len(u_cands) : ~ParsedCandidate(task.source, u_cands[i]).valid

\* documents inserted by this run
Written == { d \in store : d.id \notin { OldId(c) : c \in Codes } }

C4_OnlyRecordsWithALink ==
    /\ out # NoItem => out.magnet # ""
    /\ \A d \in Written : d.magnet # "" /\ d.magnet # Null
    /\ (ParsedAResponse /\ BestOfResponse.url = "") => out = NoItem

\* after a document was written, a javdb page without a usable link is dropped
C4_Witness ==
    /\ Written # { }
    /\ task.source = "javdb"
    /\ ParsedAResponse /\ BestOfResponse.url = "" /\ out = NoItem

\* C5: for both spiders, a parse handler given a response with no valid
\* magnet-prefixed link increments the failed counter and appends a
\* failed_items entry for the code with the reason "no usable link".
C5_NoLinkIsTallied ==
    [][(calls' = calls + 1 /\ ParsedAResponse' /\ NoValidLink') =>
          /\ fail_count' = fail_count + 1
          /\ Len(failed_items') = Len(failed_items) + 1
          /\ failed_items'[Len(failed_items')].code = hist'.code
          /\ failed_items'[Len(failed_items')].reason = "no_magnet"]_vars
(***************************************************************************)
(* Properties of the task run, checked under Spec.                         *)
(***************************************************************************)
\* the step ran the duplicate check on a list entry
Checked == entries' # entries

\* the store holds a record of the code with a non-null magnet
HoldsLinked(coll, code) == \E d \in coll : d.code = code /\ d.magnet # Null

\* the step sent a request to the site
Sent == inflight' \ inflight # {}

\* the step yielded a request of one of the kinds
Yielded(kinds) ==
    Len(sched') > Len(sched) /\ sched'[Len(sched')].kind \in kinds

\* C2: the duplicate counter is the number of duplicate verdicts since the
\* most recent non-duplicate verdict of the run; it is kept from one list
\* page to the next.
C2_CounterIsTheRun == duplicate_count = hist.run

\* the first entry of the second list page is the second duplicate in a row
C2_Witness ==
    /\ pages = 2 /\ gen.active /\ gen.seen = 1
    /\ hist.op = "check" /\ hist.hit
    /\ duplicate_count = 2

\* C3: the stopped flag is never cleared, and once it is set no request is
\* sent to the site and parse_list yields no list or detail request.
C3_NothingAfterStop ==
    [][/\ stop_current_actor => stop_current_actor'
       /\ stop_current_actor' => (~Sent /\ ~Yielded({ "list", "detail" }))]_vars

\* stopped with requests still waiting that the engine could otherwise send
C3_Witness ==
    /\ stop_current_actor
    /\ sched # << >> /\ inflight = {} /\ out = NoItem

\* C6: the collection holds at most one document per code, whatever was
\* emitted, the same code twice in one run included.
C6_OneDocumentPerCode ==
    \A d1 \in store, d2 \in store : d1.code = d2.code => d1 = d2

\* two records were emitted and saved without a fault into a collection
\* that was empty, and one document was written: both had the same code
C6_Witness ==
    /\ success_count = 2 /\ out = NoItem /\ faults = 0
    /\ Cardinality(store) = 1 /\ Written = store

\* C7 as stated: a list entry is judged a duplicate if and only if the store
\* holds a record of its code with a non-null magnet.
C7_DuplicateIffStored ==
    [][Checked => (hist'.hit <=> HoldsLinked(store, hist'.code))]_vars

\* C7, amended: a list entry is judged a duplicate if and only if the lookup
\* did not fail and the store holds a record of its code with a non-null
\* magnet; an entry not judged a duplicate (a stored record with a null
\* magnet included) gets its detail request, a duplicate gets none.
C7_DuplicateIffFound ==
    [][Checked =>
          /\ hist'.hit <=> (~hist'.failed /\ HoldsLinked(store, hist'.code))
          /\ ~hist'.hit => sched' = Append(sched, Req("detail", hist'.code, 0))
          /\ hist'.hit => sched' = sched]_vars

\* an entry whose stored record has a null magnet went on to its detail page
C7_Witness ==
    /\ hist.op = "check" /\ ~hist.hit /\ ~hist.failed
    /\ \E d \in store : d.code = hist.code /\ d.magnet = Null
    /\ Req("detail", hist.code, 0) \in inflight
(***************************************************************************)
(* Properties of the URL resolver, checked under SpecResolver.             *)
(***************************************************************************)
\* the values the URL's query gives parameter k, in order
QueryValues(url, k) ==
    LET ps == SelectSeq(url.query, LAMBDA p : p[1] = k)
    IN  [i \in 1..Len(ps) |-> ps[i][2]]

\* how often the pair k=v occurs in the URL's query
Count(url, k, v) == Cardinality({ i \in 1..Len(url.query) : url.query[i] = << k, v >> })

Keys == { "sort_type", "t", "f" }
Values == { "", "0", "1", "5", "d", "s", "c", "x", "cnsub", "download" }

Resolved(source, kind) ==
    r_results # << >> /\ r_source = source /\ Lower(r_type) = kind

\* the text after the scheme prefix is one urlparse accepts
BaseParses == r_base.rest # "[::1/x"

\* the literal value of f for the entry's filter
FValue == IF r_conf.only_chinese THEN "cnsub" ELSE "download"

\* the result carries exactly sort_type=5 and f=<literal>, and nothing else
\* when the base URL had no query
CodeUrlOf(res) ==
    /\ QueryValues(res, "sort_type") = << "5" >>
    /\ QueryValues(res, "f") = << FValue >>
    /\ r_base.query = << >> => res.query = << << "sort_type", "5" >>, << "f", FValue >> >>

\* C13 as stated: for source javdb and page kind "code" the result has
\* exactly sort_type=5 and f=cnsub (only_chinese) or f=download, whatever
\* the base URL held.
C13_CodeUrlOverwrites ==
    Resolved("javdb", "code") =>
        \A i \in 1..Len(r_results) : CodeUrlOf(r_results[i])

\* C13 (amended): the same, for a base URL that urlparse accepts.
C13_CodeUrlOverwritesParsed ==
    (Resolved("javdb", "code") /\ BaseParses) =>
        \A i \in 1..Len(r_results) : CodeUrlOf(r_results[i])

\* a code URL was resolved whose base already had sort_type and f values
C13_Witness ==
    /\ Resolved("javdb", "code") /\ BaseParses /\ r_conf.only_chinese
    /\ r_base.query = << << "sort_type", "1" >>, << "f", "x" >> >>
    /\ r_results[1].query = << << "sort_type", "5" >>, << "f", "cnsub" >> >>

\* every non-empty value of the base URL is in the result as often as before
KeepsValues(res) ==
    \A k \in Keys, v \in Values \ { "" } :
        Count(r_base, k, v) > 0 => Count(res, k, v) = Count(r_base, k, v)

\* every pair of the base URL's query is still in the result
KeepsPairs(res) ==
    \A j \in 1..Len(r_base.query) : InSeq(r_base.query[j], res.query)

\* the values the actor page asks for are present
HasActorValues(res) ==
    /\ Count(res, "sort_type", "0") > 0
    /\ Count(res, "t", "d") > 0
    /\ r_conf.exclude_multi_person => Count(res, "t", "s") > 0
    /\ r_conf.only_chinese => Count(res, "t", "c") > 0

\* C14 as stated: for source javdb and page kind "actor" no query value of
\* the base URL is removed or replaced, 0 (sort_type) and d (t) are present,
\* s with exclude_multi_person and c with only_chinese, and no value is
\* duplicated within a parameter.
C14_ActorUrlMerges ==
    Resolved("javdb", "actor") =>
        \A i \in 1..Len(r_results) :
            /\ KeepsPairs(r_results[i])
            /\ HasActorValues(r_results[i])
            /\ \A k \in Keys, v \in Values : Count(r_results[i], k, v) <= 1

\* C14 (amended): for a base URL that urlparse accepts, no non-empty query
\* value of the base URL is removed or replaced, 0 and d are present, s with
\* exclude_multi_person and c with only_chinese, and the resolver adds no
\* value that the parameter already holds.
C14_ActorUrlMergesParsed ==
    (Resolved("javdb", "actor") /\ BaseParses) =>
        \A i \in 1..Len(r_results) :
            /\ KeepsValues(r_results[i])
            /\ HasActorValues(r_results[i])
            /\ \A k \in Keys, v \in Values :
                  Count(r_base, k, v) = 0 => Count(r_results[i], k, v) <= 1

\* an actor URL was resolved whose base already had a sort_type and the t
\* value the resolver adds
C14_Witness ==
    /\ Resolved("javdb", "actor") /\ BaseParses /\ r_conf.only_chinese
    /\ r_base.query = << << "sort_type", "1" >>, << "t", "d" >> >>
    /\ r_results[1].query = << << "sort_type", "1" >>, << "sort_type", "0" >>,
                               << "t", "d" >>, << "t", "c" >> >>

\* res is the base URL with the whitespace around it removed and https://
\* put in front when it had no scheme; the empty string stays empty
SameButPrefix(res) ==
    /\ ~res.pad
    /\ res.scheme = IF r_base.scheme = "" /\ r_base # EmptyUrl THEN "https://"
                    ELSE r_base.scheme
    /\ res.rest = r_base.rest
    /\ res.query = r_base.query

\* C15: for source javbus (any page kind, any filter configuration) and for
\* any unknown source, build_final_url returns the base URL unchanged apart
\* from the https:// prefix normalization: no query parameter is added,
\* removed or reordered.
C15_PassThrough ==
    (r_results # << >> /\ r_source # "javdb") =>
        \A i \in 1..Len(r_results) : SameButPrefix(r_results[i])

\* a javbus URL with a repeated parameter and a blank one was resolved with
\* both filters set
C15_Witness ==
    /\ r_results # << >> /\ r_source = "javbus"
    /\ r_conf.only_chinese /\ r_conf.exclude_multi_person
    /\ r_base.query = << << "t", "" >>, << "t", "d" >> >>
    /\ r_base.scheme = ""

C17_FinalUrlAbsolute ==
    /\ [](r_task.built => (r_task.final_url # EmptyUrl /\ StartsWithHttp(r_task.final_url)))
    /\ [][r_task.built => r_task' = r_task]_vars

(***************************************************************************)
(* Properties of the task runner, checked under SpecRunner.                *)
(***************************************************************************)
\* the tasks were started in list order, each once
StartedInOrder == \A k \in 1..Len(run_log) : run_log[k].idx = k

\* C18: tasks run one at a time in task-list order: only the task started
\* last can have a crawl running, so the crawl of task i+1 never starts
\* before the crawl of task i has ended, and at most one crawl is active.
C18_OneTaskAtATime ==
    /\ Cardinality(run_active) <= 1
    /\ StartedInOrder
    /\ run_active \subseteq { Len(run_log) }

\* the third task's crawl runs after the first two tasks ended
C18_Witness ==
    /\ run_active = { 3 } /\ Len(run_log) = 3
    /\ run_success + run_failed = 2

\* C19: every task after the first starts only when the inter-task delay
\* has elapsed since the task before it ended, whether that task completed
\* or failed.
C19_DelayBetweenTasks ==
    \A k \in 2..Len(run_log) : run_log[k].waited = TaskDelay

\* C20: a failed task (the spider class does not load, or the crawl raises)
\* is counted and the loop goes on: no task is attempted twice, and when the
\* final summary is produced every validated task was attempted once and
\* success + failed is the number of validated tasks.
C20_FailureAdvances ==
    /\ StartedInOrder
    /\ Len(run_log) <= Len(run_tasks)
    /\ run_pc = "summary" =>
          /\ Len(run_log) = Len(run_tasks)
          /\ run_success + run_failed = Len(run_tasks)

\* the summary of a run in which a task failed to load, a crawl raised and
\* a later task completed
C20_Witness ==
    /\ run_pc = "summary"
    /\ run_tasks = << "javdb", "javbus", "javbus" >>
    /\ run_failed = 2 /\ run_success = 1
(***************************************************************************)
(* Crawl claims, continued                                                 *)
(***************************************************************************)
\* C21: within one task, of either source, at most one request (list page,
\* detail page or ajax fetch) is in the downloader at any time
C21_OneRequestInFlight == Cardinality(inflight) <= 1

\* a detail request is being downloaded while other requests are pending
C21_Witness ==
    /\ \E req \in inflight : req.kind = "detail"
    /\ Len(sched) >= 1
(***************************************************************************)
(* Properties of the extractors, checked under SpecExtract.                *)
(***************************************************************************)
\* the fields of a record: name, title, code, magnet, size and the metadata
RecordFields == { "name", "title", "code", "magnet", "size", "release_date",
                  "director", "maker", "series", "rating", "tags", "actors" }
Emitted == x_item # NoRecord
Lacks(label) == label \notin x_doc.present

\* C22: every emitted record, of either spider, carries every record field,
\* and a field the detail page lacks has its zero value: "" for the date and
\* the text fields, 0.0 for the rating, no tag but the synthetic one, no actor
C22_RecordComplete ==
    Emitted =>
       /\ RecordFields \subseteq DOMAIN x_item
       /\ \A f \in { "release_date", "director", "maker", "series" } :
             Lacks(f) => x_item[f] = ""
       /\ Lacks("rating") => x_item.rating = 0
       /\ Lacks("tags") => x_item.tags \in { << >>, << ChineseTag >> }
       /\ Lacks("actors") /\ ~x_doc.stars => x_item.actors = << >>
(***************************************************************************)
(* Properties of list traversal.                                           *)
(***************************************************************************)
\* a step in which parse_list reaches a list entry: a turn of javbus' loop,
\* or the javdb callback on a page that has an entry
ExaminesJavbusEntry == entries' # entries
ExaminesJavdbEntry == hist'.op = "crash" /\ calls' # calls
\* the entry is a duplicate: the verdict of the check or, where the check
\* never ran, a stored record with that code and a magnet
EntryIsDuplicate ==
    IF ExaminesJavbusEntry THEN hist'.hit ELSE IsHit(hist'.code, FALSE)
DetailRequests(q) ==
    Cardinality({ i \in 1..Len(q) : q[i] = Req("detail", hist'.code, 0) })

\* C23: for both spiders, while the task is not stopped, examining a list
\* entry issues exactly one detail request if the entry is not a duplicate
\* and none if it is
C23_OneDetailRequestPerEntry ==
    [][ (ExaminesJavbusEntry \/ ExaminesJavdbEntry) /\ ~stop_current_actor' =>
           DetailRequests(sched') =
              DetailRequests(sched) + (IF EntryIsDuplicate THEN 0 ELSE 1) ]_vars

\* a duplicate check with the verdict hit, and the record it found
DuplicateHit == hist'.op = "check" /\ hist'.hit /\ hist' # hist
HitRecord == CHOOSE d \in store : d.id = find_one(store, hist'.code, FALSE)
Touched(d) == [id |-> d.id, code |-> d.code, magnet |-> d.magnet, updated_at |-> Now]

\* C24: every duplicate hit, the one that stops the task included, sets the
\* found record's updated_at to now no later than the counter is
\* incremented, and changes nothing else in the store
C24_HitTouchesRecord ==
    [][ DuplicateHit =>
           /\ store' = (store \ { HitRecord }) \cup { Touched(HitRecord) }
           /\ duplicate_count' = duplicate_count + 1 ]_vars

\* C24 amended: the same unless update_one itself fails inside the gateway,
\* which leaves the store as it was while the counter is still incremented
C24_HitTouchesRecordUnlessFailed ==
    [][ DuplicateHit =>
           /\ store' = IF faults' = faults
                       THEN (store \ { HitRecord }) \cup { Touched(HitRecord) }
                       ELSE store
           /\ duplicate_count' = duplicate_count + 1 ]_vars

\* the hit that stopped the task has touched the record it found
C24_Witness ==
    /\ stop_current_actor /\ hist.op = "check" /\ hist.hit /\ faults = 0
    /\ \E d \in store : d.code = hist.code /\ d.magnet # Null /\ d.updated_at = Now

(***************************************************************************)
(* Properties of the detail and ajax callbacks, checked under Spec.        *)
(***************************************************************************)
\* parse_detail ran on a page that lacks one of gid, uc, img
MissingVars == hist'.op = "no_vars" /\ total_count' # total_count

\* C25: javbus, a detail page without one of the script variables: no
\* request is issued for the entry, fail_count grows by exactly one, no item
\* is yielded, and the task goes on: it is not stopped and its pending
\* requests and its list traversal are left as they were
C25_MissingVarsCountsOneFailure ==
    [][ MissingVars =>
           /\ sched' = sched
           /\ fail_count' = fail_count + 1
           /\ out' = NoItem
           /\ closing' = closing /\ stop_current_actor' = stop_current_actor
           /\ gen' = gen ]_vars

\* such a page was parsed while the list page is still being traversed and
\* another request waits
C25_Witness ==
    /\ hist.op = "no_vars" /\ fail_count = 1
    /\ gen.active /\ sched # << >> /\ ~closing

\* a callback yields an item
Emits == out = NoItem /\ out' # NoItem
\* the response of request req reaches its callback in this step
Fetched(req) == req \in inflight /\ inflight' = inflight \ { req }
AjaxRequests(q, code) == Cardinality({ i \in 1..Len(q) : q[i] = Req("ajax", code, 10) })
PendingAjax ==
    Cardinality({ i \in 1..Len(sched) : sched[i].kind = "ajax" })
       + Cardinality({ req \in inflight : req.kind = "ajax" })

\* C26: javbus: an item for a code is yielded only by the callback of that
\* code's ajax response, an ajax request for a code is made only by the
\* callback of that code's detail response, one at most, and the items
\* yielded and ajax requests pending never outnumber the detail pages
\* parsed; javdb: no ajax request ever exists and an item is yielded by
\* parse_detail itself
C26_DetailThenAjaxThenRecord ==
    /\ [](task.source = "javbus" => success_count + PendingAjax <= total_count)
    /\ [](task.source = "javdb" => PendingAjax = 0)
    /\ [][ /\ Emits =>
                IF task.source = "javbus"
                THEN Fetched(Req("ajax", out'.code, 10))
                ELSE hist'.op = "detail" /\ hist'.code = out'.code /\ sched' = sched
           /\ \A code \in Codes :
                AjaxRequests(sched', code) > AjaxRequests(sched, code) =>
                   /\ task.source = "javbus"
                   /\ Fetched(Req("detail", code, 0))
                   /\ AjaxRequests(sched', code) = AjaxRequests(sched, code) + 1 ]_vars

\* a javbus item was yielded after two detail pages were parsed
C26_Witness ==
    /\ task.source = "javbus" /\ out # NoItem
    /\ total_count = 2 /\ success_count = 1

\* a step in which parse_list is done with a list page that had entries:
\* javbus' generator ends after its loop, javdb's callback raises
ParsesListPage ==
    \/ hist'.op = "list_end" /\ gen.active /\ ~gen'.active
    \/ hist'.op = "crash" /\ calls' # calls
NextPageRequests(q) == Cardinality({ i \in 1..Len(q) : q[i] = Req("list", "", -10) })

\* C27: when a list page has been parsed, the next list page is requested
\* if and only if the page has a next link and the task is not stopped
C27_NextPageIffLinkAndNotStopped ==
    [][ ParsesListPage =>
           NextPageRequests(sched') =
              NextPageRequests(sched)
                 + (IF hist'.next /\ ~stop_current_actor' THEN 1 ELSE 0) ]_vars

\* the fetch of a request fails and its errback runs
FetchFails == hist'.op = "error" /\ inflight' # inflight
\* list traversal is not over: parse_list is suspended, or a list page is
\* requested or being downloaded
ListTraversalGoesOn ==
    \/ gen.active
    \/ NextPageRequests(sched) >= 1
    \/ \E req \in inflight : req.kind = "list"

\* C28: a failed fetch abandons only its own entry or page: the pending
\* requests, the list traversal under way and the stop flags are left as
\* they were, and after a failed list page that is followed by further list
\* pages the traversal of the list goes on
C28_FetchErrorAbandonsOnlyThatRequest ==
    [][ FetchFails =>
           /\ sched' = sched /\ gen' = gen
           /\ closing' = closing /\ stop_current_actor' = stop_current_actor
           /\ hist'.next /\ ~stop_current_actor => ListTraversalGoesOn' ]_vars

(***************************************************************************)
(* Properties of the task runner, continued; checked under SpecRunner.     *)
(***************************************************************************)
\* the running task's crawl ends, stopped by the duplicate limit
StopsEarly == run_pc = "crawl" /\ run_pc' # "crawl" /\ stop_current_actor'
\* run_spiders starts the crawl of a task
StartsCrawl == run_pc = "next" /\ run_pc' = "crawl"

\* C29: a task stopped by the duplicate limit is counted as a success, not
\* a failure, and the loop goes on to the following task; every task list
\* is run to its last task; and a task whose crawl starts has its own
\* spider, with duplicate_count 0 and stop_current_actor false
C29_EarlyStopIsSuccess ==
    /\ [][ StopsEarly =>
              /\ run_success' = run_success + 1 /\ run_failed' = run_failed
              /\ \/ run_pc' = "delay" /\ run_idx' = run_idx
                 \/ run_pc' = "next" /\ run_idx' = run_idx + 1 ]_vars
    /\ [][ StartsCrawl => duplicate_count' = 0 /\ ~stop_current_actor' ]_vars
    /\ [](run_pc = "summary" => Len(run_log) = Len(run_tasks))

\* the first task stopped early, was counted as a success, and the runner
\* waits before the following task
C29_Witness ==
    /\ stop_current_actor /\ duplicate_count = 3
    /\ run_pc = "delay" /\ run_idx = 1 /\ run_success = 1 /\ run_failed = 0

(***************************************************************************)
(* Properties of the candidate scorer, continued; checked under            *)
(* SpecScorer.                                                             *)
(***************************************************************************)
\* a malformed candidate: no link, a link without the magnet prefix, or a
\* size numeral that float() rejects
Malformed(e) == e.href = "" \/ ~IsMagnet(e.href) \/ _parse_size(e.size).raised
WellFormed(e) == ~Malformed(e)

\* C30: malformed candidates are skipped: the bestURL returned for a
\* response is the one returned for the same response without its
\* malformed candidates, so none of them is returned and none keeps a valid
\* candidate before or after it from being selected
C30_MalformedSkipped ==
    Scored =>
       u_result.url =
          get_best_magnet(u_result.source, SelectSeq(u_cands, WellFormed), u_only).url

\* candidate i of the scored response is valid and has the preferred-language flag
PreferredAt(i) ==
    /\ ParsedCandidate(u_result.source, u_cands[i]).valid
    /\ ParsedCandidate(u_result.source, u_cands[i]).has_chinese_sub

\* C31: with only_chinese false, when a valid candidate has the
\* preferred-language flag the selected candidate is one with the flag,
\* whatever the sizes of the others, and among the flagged candidates the
\* size decides: none of them is larger than the selected one
C31_LanguageIsHardPriority ==
    (Scored /\ ~u_only /\ SomeValidPreferred) =>
        \E i \in 1..Len(u_cands) :
           /\ PreferredAt(i)
           /\ u_result.url = u_cands[i].href
           /\ u_result.has_chinese_sub
           /\ \A j \in 1..Len(u_cands) :
                 PreferredAt(j) =>
                    ParsedCandidate(u_result.source, u_cands[j]).size
                       <= ParsedCandidate(u_result.source, u_cands[i]).size

(***************************************************************************)
(* Properties of the extractors, continued; checked under SpecExtract.     *)
(***************************************************************************)
Occurrences(tag, tags) == Cardinality({ i \in 1..Len(tags) : tags[i] = tag })

\* C32: in every emitted record the synthetic tag occurs at most once: it
\* is appended to the extracted tags when the selected magnet has Chinese
\* subtitles and the extracted tags do not hold it, and the extracted tags
\* are kept as they are otherwise
C32_SyntheticTagAtMostOnce ==
    Emitted =>
       /\ Occurrences(ChineseTag, x_item.tags) <= 1
       /\ x_item.tags = IF x_chinese /\ ~InSeq(ChineseTag, x_doc.tags)
                        THEN Append(x_doc.tags, ChineseTag)
                        ELSE x_doc.tags

(***************************************************************************)
(* Properties of the crawl, continued; checked under Spec.                 *)
(***************************************************************************)
\* C33: every entry of failed_items carries a code, a reason and a url, so
\* that close() can format each of them
C33_FailedItemsComplete ==
    \A i \in 1..Len(failed_items) :
       /\ failed_items[i].code # ""
       /\ failed_items[i].reason # ""
       /\ failed_items[i].url

\* C34: a store failure while saving leaves the record unsaved, is not
\* retried and does not touch the crawl: the item is consumed, the store is
\* as before, nothing is closed and the pending requests and the running
\* callback are kept
SaveFails == out # NoItem /\ faults' = faults + 1
C34_StoreFailureIsContained ==
    [][SaveFails =>
          /\ store' = store
          /\ out' = NoItem
          /\ closing' = closing /\ stop_current_actor' = stop_current_actor
          /\ sched' = sched /\ inflight' = inflight /\ gen' = gen]_vars
\* a record was yielded and consumed, nothing was stored, the crawl goes on
C34_Witness ==
    /\ success_count >= 1 /\ out = NoItem /\ store = { }
    /\ ~closing /\ (sched # << >> \/ gen.active)

(***************************************************************************)
(* Properties of the extractors, continued; checked under SpecExtract.     *)
(***************************************************************************)
\* C35: for either spider, a field of the panel whose extraction fails does
\* not end the processing of the detail page with an exception, and the
\* record has the field at its default
RatingFails == "rating" \in x_doc.present /\ FloatRaises(x_doc.score)
C35_FieldFailureIsIsolated ==
    /\ ~x_raised
    /\ (Emitted /\ x_source = "javdb" /\ RatingFails) => x_item.rating = 0

(***************************************************************************)
(* Properties of the task runner, continued; checked under SpecRunnerFair. *)
(***************************************************************************)
\* C36: a run of run_spiders on a non-empty validated list ends: the final
\* summary is logged and the reactor is stopped, whatever the tasks' outcomes
C36_RunTerminates == <>(run_pc = "summary" /\ reactor = "stopped")

(***************************************************************************)
(* Properties of the crawl, continued; checked under Spec.                 *)
(***************************************************************************)
\* C37: with is_skip disabled the stop flag is never set and CloseSpider is
\* never raised, whatever the number of duplicates in a row; a duplicate is
\* still skipped: its check adds no request, counts one more duplicate and
\* leaves parse_list running
ChecksDuplicate == hist'.op = "check" /\ hist'.hit /\ gen.active /\ gen'.seen = gen.seen + 1
C37_NoEarlyStopWhenDisabled ==
    [][~task.is_skip =>
          /\ ~stop_current_actor' /\ ~closing'
          /\ ChecksDuplicate =>
                /\ sched' = sched /\ inflight' = inflight
                /\ duplicate_count' = duplicate_count + 1
                /\ gen'.active]_vars
\* the run of duplicates reached the limit of the spider and nothing stopped
C37_Witness ==
    /\ ~task.is_skip /\ hist.op = "check" /\ hist.hit
    /\ duplicate_count >= max_duplicates(task.source)
    /\ ~stop_current_actor /\ ~closing /\ gen.active

(***************************************************************************)
(* Properties of the handlers, continued; checked under SpecUnit.          *)
(***************************************************************************)
\* C38: insert_if_not_exists on a record whose code is stored already
\* returns the _id of the stored document and leaves the collection as it
\* is, also when the stored document has a null magnet and the record has one
Saves == out # NoItem /\ out' = NoItem /\ hist'.op = "saved" /\ faults' = faults
Stored(code) == { d \in store : d.code = code }
LookupFails == hist'.op = "check" /\ hist'.failed /\ gen.active /\ gen' # gen
C39_FailedLookupIsNonDuplicate ==
    [][LookupFails =>
          /\ duplicate_count' = 0
          /\ store' = store
          /\ sched' = Append(sched, Req("detail", hist'.code, 0))
          /\ ~stop_current_actor' /\ ~closing']_vars
\* the lookup failed for a code that is stored with a magnet
C39_Witness ==
    /\ hist.op = "check" /\ hist.failed /\ ~hist.hit /\ duplicate_count = 0
    /\ Doc(OldId(hist.code), hist.code, "old", Earlier) \in store
    /\ \E i \in 1..Len(sched) : sched[i] = Req("detail", hist.code, 0)

\* C40: in a javbus task run success_count + fail_count <= total_count and
\* chinese_count <= success_count at every moment; a detail response adds
\* exactly one to total_count, nothing else changes total_count, and no step
\* adds more than one to success_count + fail_count
DetailResponse ==
    /\ hist'.op \in { "ok", "no_vars", "raises" }
    /\ \E req \in inflight \ inflight' : req.kind = "detail"
Settled == success_count + fail_count
C40_CountersConsistent ==
    [][/\ success_count' + fail_count' <= total_count'
       /\ chinese_count' <= success_count'
       /\ total_count' = total_count + (IF DetailResponse THEN 1 ELSE 0)
       /\ Settled' \in { Settled, Settled + 1 }]_vars
\* two detail pages answered: one gave a record with Chinese subtitles, one failed
C40_Witness ==
    /\ total_count = 2 /\ success_count = 1 /\ fail_count = 1 /\ chinese_count = 1
====
